---------------------------- MODULE Spec2Model ----------------------------
(***************************************************************************)
(* A model of the adapter-driven scaffolding core of agent-rules: the      *)
(* main-context merge (CLAUDE.md / GEMINI.md), the instruction copier, the *)
(* MCP JSON merge of BaseAdapter and the target path validator.            *)
(*                                                                         *)
(* Text is modelled as a sequence of one-character strings, so that        *)
(* toLowerCase, includes, trim, startsWith and the path functions of       *)
(* node:path are computed character by character, as the code does.        *)
(***************************************************************************)
EXTENDS Integers, Sequences, FiniteSets, TLC

VARIABLES
    adapter,      \* Spec: the main-context adapter in use
    mainFile,     \* Spec: content of CLAUDE.md / GEMINI.md, or Absent
    rules,        \* Spec: files written under the rules directory, path -> content
    warnings,     \* Spec: names passed to console.warn by the copier
    hist,         \* Spec: one record per processInstructions call (history)
    mergeKey,     \* SpecMcp: the adapter's McpConfig.mergeKey (after the default)
    tplFile,      \* SpecMcp: the template mcp.json on disk
    mcpFile,      \* SpecMcp: the target JSON config on disk
    mcpDirMade,   \* SpecMcp: whether the target's directory has been created
    mcpWarned,    \* SpecMcp: number of console.warn calls of processMcpConfiguration
    mcpHist,      \* SpecMcp: one record per processMcpConfiguration call (history)
    pathIn,       \* SpecPath: the (targetFilePath, baseDirectory) last validated
    pathOut,      \* SpecPath: the outcome of validateTargetPath on pathIn
    copyIn,       \* SpecCopy: the (adapter, template directory listing) of the pass
    copyOut,      \* SpecCopy: files written, warnings and exception of the pass
    scaffoldIn,   \* SpecScaffold: the request, the template listing, the project before
    scaffoldOut,  \* SpecScaffold: the exception and the project after the request
    docIn,        \* SpecDoc: the template document
    docOut,       \* SpecDoc: what the Cursor and the Gemini transform made of it
    cmdIn,        \* SpecCommands: the CommandsConfig, the commands directory, the project
    cmdOut,       \* SpecCommands: the project and the warnings after the call
    lookups,      \* SpecRegistry: one record per AdapterRegistry.getAdapter call
    instances,    \* SpecRegistry: the adapters constructed so far, in order
    includeIn,    \* SpecInclude: the request, the MCP template, the target config
    includeOut,   \* SpecInclude: what the scaffold and the direct call left behind
    cliTopics,    \* SpecCli: the topics of the request, in the order chosen
    cliMode,      \* SpecCli: "interactive" (prompts) or "args" (command line flags)
    flights,      \* SpecCli: one record per scaffoldAiAppInstructions call started
    cliFile,      \* SpecCli: the topics the main-context file imports
    cliExit,      \* SpecCli: "running", "ok" (message printed) or "failed" (exit 1)
    nameIn,       \* SpecName: the adapter and the template file name
    nameOut,      \* SpecName: the target file name derived from nameIn
    mergeIn,      \* SpecMerge: the document, the category label, the import entries
    mergeOut      \* SpecMerge: the document the merge returned

mainVars == <<adapter, mainFile, rules, warnings, hist>>
mcpVars  == <<mergeKey, tplFile, mcpFile, mcpDirMade, mcpWarned, mcpHist>>
pathVars == <<pathIn, pathOut>>
copyVars == <<copyIn, copyOut>>
scaffoldVars == <<scaffoldIn, scaffoldOut>>
docVars == <<docIn, docOut>>
cmdVars == <<cmdIn, cmdOut>>
registryVars == <<lookups, instances>>
includeVars == <<includeIn, includeOut>>
cliVars == <<cliTopics, cliMode, flights, cliFile, cliExit>>
nameVars == <<nameIn, nameOut>>
mergeVars == <<mergeIn, mergeOut>>
vars     == <<adapter, mainFile, rules, warnings, hist,
              mergeKey, tplFile, mcpFile, mcpDirMade, mcpWarned, mcpHist,
              pathIn, pathOut, copyIn, copyOut, scaffoldIn, scaffoldOut,
              docIn, docOut, cmdIn, cmdOut, lookups, instances,
              includeIn, includeOut, cliTopics, cliMode, flights, cliFile, cliExit,
              nameIn, nameOut, mergeIn, mergeOut>>

\* What a read of a file that does not exist finds (not a text).
Absent == <<"ENOENT">>

-----------------------------------------------------------------------------
(* Strings: String.prototype functions on sequences of characters.         *)

UpperCase == <<"A","B","C","D","E","F","G","H","I","J","K","L","M",
               "N","O","P","Q","R","S","T","U","V","W","X","Y","Z">>
LowerCase == <<"a","b","c","d","e","f","g","h","i","j","k","l","m",
               "n","o","p","q","r","s","t","u","v","w","x","y","z">>

LowerChar(c) ==
    IF \E i \in 1..Len(UpperCase) : UpperCase[i] = c
    THEN LowerCase[CHOOSE i \in 1..Len(UpperCase) : UpperCase[i] = c]
    ELSE c

toLowerCase(s) == [i \in 1..Len(s) |-> LowerChar(s[i])]

startsWith(s, p) == Len(p) <= Len(s) /\ SubSeq(s, 1, Len(p)) = p

endsWith(s, p) == Len(p) <= Len(s) /\ SubSeq(s, Len(s) - Len(p) + 1, Len(s)) = p

includes(s, p) ==
    \E i \in 0..(Len(s) - Len(p)) : SubSeq(s, i + 1, i + Len(p)) = p

NewLine == <<"\n">>

IsWhiteSpace(c) == c \in {" ", "\n", "\t", "\r"}

\* String.prototype.trim: white space is removed from BOTH ends.
trim(s) ==
    LET keep == {i \in 1..Len(s) : ~IsWhiteSpace(s[i])}
    IN  IF keep = {} THEN <<>>
        ELSE LET lo == CHOOSE i \in keep : \A j \in keep : i <= j
                 hi == CHOOSE i \in keep : \A j \in keep : j <= i
             IN  SubSeq(s, lo, hi)

RECURSIVE join(_, _)
join(parts, sep) ==
    IF parts = <<>> THEN <<>>
    ELSE IF Len(parts) = 1 THEN parts[1]
    ELSE parts[1] \o sep \o join(Tail(parts), sep)

\* The number of (possibly overlapping) places where p occurs in s.
Occurrences(s, p) ==
    Cardinality({i \in 0..(Len(s) - Len(p)) : SubSeq(s, i + 1, i + Len(p)) = p})

\* Position of the last occurrence of character c in s, 0 when there is none.
lastIndexOf(s, c) ==
    LET at == {i \in 1..Len(s) : s[i] = c}
    IN  IF at = {} THEN 0 ELSE CHOOSE i \in at : \A j \in at : j <= i

RECURSIVE split(_, _)
split(s, c) ==
    LET at == {i \in 1..Len(s) : s[i] = c}
    IN  IF at = {} THEN <<s>>
        ELSE LET i == CHOOSE k \in at : \A j \in at : k <= j
             IN  <<SubSeq(s, 1, i - 1)>> \o split(SubSeq(s, i + 1, Len(s)), c)

-----------------------------------------------------------------------------
(* node:path (POSIX) and decodeURIComponent.                               *)

Slash == <<"/">>
Dot == <<".">>
DotDot == <<".", ".">>

\* process.cwd(): the project root the CLI runs in.
Cwd == <<"/","p">>

isAbsolute(p) == Len(p) > 0 /\ p[1] = "/"

\* normalizeString of node's lib/path.js: resolves "." and ".." segments.
RECURSIVE normalizeSegments(_, _, _)
normalizeSegments(segs, acc, allowAboveRoot) ==
    IF segs = <<>> THEN acc
    ELSE LET s == Head(segs)
             rest == Tail(segs)
         IN  IF s = <<>> \/ s = Dot
             THEN normalizeSegments(rest, acc, allowAboveRoot)
             ELSE IF s = DotDot
             THEN IF Len(acc) > 0 /\ acc[Len(acc)] # DotDot
                  THEN normalizeSegments(rest, SubSeq(acc, 1, Len(acc) - 1), allowAboveRoot)
                  ELSE IF allowAboveRoot
                  THEN normalizeSegments(rest, Append(acc, DotDot), allowAboveRoot)
                  ELSE normalizeSegments(rest, acc, allowAboveRoot)
             ELSE normalizeSegments(rest, Append(acc, s), allowAboveRoot)

normalize(p) ==
    IF p = <<>> THEN Dot
    ELSE LET abs == isAbsolute(p)
             trailing == p[Len(p)] = "/"
             body == join(normalizeSegments(split(p, "/"), <<>>, ~abs), Slash)
             body2 == IF body = <<>> /\ ~abs THEN Dot ELSE body
             body3 == IF body2 # <<>> /\ trailing THEN body2 \o Slash ELSE body2
         IN  IF abs THEN Slash \o body3 ELSE body3

\* path.resolve(p) with one argument: against process.cwd() when relative;
\* the result is absolute, normalized and has no trailing separator.
resolve(p) ==
    LET full == IF isAbsolute(p) THEN p ELSE Cwd \o Slash \o p
    IN  Slash \o join(normalizeSegments(split(full, "/"), <<>>, FALSE), Slash)

\* path.join(a, b): the non-empty arguments joined by "/" and normalized.
pathJoin(a, b) ==
    IF a = <<>> /\ b = <<>> THEN Dot
    ELSE IF a = <<>> THEN normalize(b)
    ELSE IF b = <<>> THEN normalize(a)
    ELSE normalize(a \o Slash \o b)

RECURSIVE stripTrailingSlashes(_)
stripTrailingSlashes(p) ==
    IF Len(p) > 1 /\ p[Len(p)] = "/" THEN stripTrailingSlashes(SubSeq(p, 1, Len(p) - 1))
    ELSE p

basename(p) ==
    LET q == stripTrailingSlashes(p)
        i == lastIndexOf(q, "/")
    IN  IF q = Slash THEN <<>> ELSE SubSeq(q, i + 1, Len(q))

dirname(p) ==
    IF p = <<>> THEN Dot
    ELSE LET q == stripTrailingSlashes(p)
             i == lastIndexOf(q, "/")
         IN  IF i = 0 THEN Dot
             ELSE IF i = 1 THEN Slash
             ELSE stripTrailingSlashes(SubSeq(q, 1, i - 1))

\* path.parse(p).name: the base name without its last extension. A leading
\* dot does not start an extension, and ".." has none.
parseName(p) ==
    LET b == basename(p)
        i == lastIndexOf(b, ".")
    IN  IF i <= 1 \/ b = DotDot THEN b ELSE SubSeq(b, 1, i - 1)

\* Thrown values are kept apart from texts: no text has a long element.
URIError == <<"URIError">>

MalformedEscape == "malformed"

\* The escapes decodeURIComponent is given here; any other "%" is malformed.
PercentCode(a, b) ==
    IF a = "2" /\ b \in {"e", "E"} THEN "."
    ELSE IF a = "2" /\ b \in {"f", "F"} THEN "/"
    ELSE IF a = "2" /\ b = "5" THEN "%"
    ELSE MalformedEscape

RECURSIVE decodeFrom(_, _)
decodeFrom(s, acc) ==
    IF s = <<>> THEN acc
    ELSE IF s[1] # "%" THEN decodeFrom(Tail(s), Append(acc, s[1]))
    ELSE IF Len(s) < 3 \/ PercentCode(s[2], s[3]) = MalformedEscape THEN URIError
    ELSE decodeFrom(SubSeq(s, 4, Len(s)), Append(acc, PercentCode(s[2], s[3])))

\* decodeURIComponent(s): the decoded text, or URIError when it throws.
decodeURIComponent(s) == decodeFrom(s, <<>>)

-----------------------------------------------------------------------------
(* The adapters' static configuration and the template corpus.             *)

MainContextAdapters == {"claude-code", "gemini"}

\* The adapter classes: GitHubCopilotAdapter, CursorAdapter, ClaudeCodeAdapter,
\* GeminiAdapter.
Adapters == {"github-copilot", "cursor", "claude-code", "gemini"}

\* BaseAdapter.config.directory resolved against process.cwd().
TargetDirectory(a) ==
    CASE a = "claude-code"    -> Cwd \o <<"/",".","c","l","a","u","d","e","/","r","u","l","e","s">>
      [] a = "gemini"         -> Cwd \o <<"/",".","g","e","m","i","n","i","/","r","u","l","e","s">>
      [] a = "cursor"         -> Cwd \o <<"/",".","c","u","r","s","o","r","/","r","u","l","e","s">>
      [] a = "github-copilot" -> Cwd \o <<"/",".","g","i","t","h","u","b","/","i","n","s","t","r","u","c","t","i","o","n","s">>

filesSuffix(a) ==
    CASE a = "cursor"         -> <<".","m","d","c">>
      [] a = "github-copilot" -> <<".","i","n","s","t","r","u","c","t","i","o","n","s",".","m","d">>
      [] OTHER                -> <<".","m","d">>

\* The literal text in front of the target file name in an import entry.
ImportPrefix(a) ==
    IF a = "claude-code"
    THEN <<"-"," ","@",".","/",".","c","l","a","u","d","e","/","r","u","l","e","s","/">>
    ELSE <<"@",".","/",".","g","e","m","i","n","i","/","r","u","l","e","s","/">>

Topics == {"testing", "secure-code", "test", "docs"}

\* codeTopic as text.
TopicText(topic) ==
    CASE topic = "testing"     -> <<"t","e","s","t","i","n","g">>
      [] topic = "secure-code" -> <<"s","e","c","u","r","e","-","c","o","d","e">>
      [] topic = "test"        -> <<"t","e","s","t">>
      [] topic = "docs"        -> <<"d","o","c","s">>

\* TOPIC_LABELS[codeTopic] || codeTopic
TopicLabel(topic) ==
    CASE topic = "testing"     -> <<"T","e","s","t","i","n","g">>
      [] topic = "secure-code" -> <<"S","e","c","u","r","e"," ","C","o","d","i","n","g">>
      [] OTHER                 -> TopicText(topic)

File(name, content) == [name |-> name, kind |-> "file", readable |-> TRUE, content |-> content]
Directory(name) == [name |-> name, kind |-> "dir", readable |-> FALSE, content |-> <<>>]
Unreadable(name) == [name |-> name, kind |-> "file", readable |-> FALSE, content |-> <<>>]

\* What fs.readdir returns for the topic's template directory, with what
\* fs.stat and fs.readFile find behind each name. "secure-code" holds a
\* source both with and without the ".instructions" marker, as the shipped
\* __template__/nodejs/secure-code does (child-process.md and
\* child-process.instructions.md).
TemplateListing(topic) ==
    CASE topic = "testing" ->
           << File(<<"t","e","s","t","i","n","g",".","m","d">>,
                   <<"-","-","-","\n","a","\n","-","-","-","\n","T","\n">>) >>
      [] topic = "secure-code" ->
           << File(<<"c","p",".","i","n","s","t","r","u","c","t","i","o","n","s",".","m","d">>,
                   <<"-","-","-","\n","a","\n","-","-","-","\n","\n","I","\n">>),
              File(<<"c","p",".","m","d">>, <<"C","\n">>),
              File(<<"n","o","t","e","s",".","t","x","t">>, <<"N">>) >>
      [] topic = "test" ->
           << File(<<"f","s",".","m","d">>, <<"-","-","-","\n","a","\n","-","-","-">>),
              Directory(<<"s","u","b",".","m","d">>),
              Unreadable(<<"l","o","c","k","e","d",".","m","d">>) >>
      [] topic = "docs" ->
           << File(<<"r","e","a","d","m","e",".","t","x","t">>, <<"R">>) >>

\* The entry fs.stat finds under a name of the template directory.
NoEntry == [name |-> <<>>, kind |-> "missing", readable |-> FALSE, content |-> <<>>]

Stat(listing, name) ==
    IF \E i \in 1..Len(listing) : listing[i].name = name
    THEN listing[CHOOSE i \in 1..Len(listing) : listing[i].name = name]
    ELSE NoEntry

-----------------------------------------------------------------------------
(* The instruction copier of the main-context adapters.                    *)

InstructionsMarker == <<".","i","n","s","t","r","u","c","t","i","o","n","s">>

\* The same without the removal of the marker.
generateTargetFileNameKeepingMarker(templateFileName, suffix) ==
    parseName(templateFileName) \o suffix

generateTargetFileName(templateFileName, suffix) ==
    LET name == parseName(templateFileName)
        baseName == IF endsWith(name, InstructionsMarker)
                    THEN SubSeq(name, 1, Len(name) - Len(InstructionsMarker))
                    ELSE name
    IN  baseName \o suffix

InvalidTargetPath == <<"Invalid target path">>

\* validateTargetPath: the resolved path, or the error it throws.
validateTargetPath(targetFilePath, baseDirectory) ==
    LET decodedPath == decodeURIComponent(targetFilePath)
    IN  IF decodedPath = URIError THEN URIError
        ELSE LET resolvedTargetFilePath == resolve(normalize(decodedPath))
             IN  IF ~startsWith(resolvedTargetFilePath, baseDirectory)
                 THEN InvalidTargetPath
                 ELSE resolvedTargetFilePath

FrontmatterFence == <<"-","-","-">>

\* Length of the run of white space that starts at position i of s.
RECURSIVE spaceRun(_, _)
spaceRun(s, i) ==
    IF i <= Len(s) /\ IsWhiteSpace(s[i]) THEN 1 + spaceRun(s, i + 1) ELSE 0

\* The greedy \s*\n of the frontmatter pattern at position i: the position
\* after the last line feed of the white space run, 0 when it has none.
\* (Used where the pattern's remainder matches anything.)
afterGreedySpaceNewline(s, i) ==
    LET at == {j \in i..(i + spaceRun(s, i) - 1) : s[j] = "\n"}
    IN  IF at = {} THEN 0 ELSE 1 + CHOOSE j \in at : \A k \in at : k <= j

\* The first position g >= p where "\n---" is followed by \s*\n, 0 if none.
closingFence(s, p) ==
    LET ok == {g \in p..Len(s) :
                 /\ g + 3 <= Len(s)
                 /\ s[g] = "\n"
                 /\ SubSeq(s, g + 1, g + 3) = FrontmatterFence
                 /\ afterGreedySpaceNewline(s, g + 4) # 0}
    IN  IF ok = {} THEN 0 ELSE CHOOSE g \in ok : \A h \in ok : g <= h

\* GeminiAdapter.stripFrontmatter:
\*   /^---\s*\n([\s\S]*?)\n---\s*\n([\s\S]*)$/ and its second group.
\* The opening \s* is greedy and backtracks over the line feeds of its run.
stripFrontmatter(content) ==
    IF ~startsWith(content, FrontmatterFence) THEN content
    ELSE LET starts == {j + 1 : j \in {k \in 4..(3 + spaceRun(content, 4)) : content[k] = "\n"}}
             good == {p \in starts : closingFence(content, p) # 0}
         IN  IF good = {} THEN content
             ELSE LET p == CHOOSE q \in good : \A r \in good : r <= q
                      g == closingFence(content, p)
                      b == afterGreedySpaceNewline(content, g + 4)
                  IN  SubSeq(content, b, Len(content))

\* --- CursorAdapter.processFrontmatter ---------------------------------------

Lines(s) == split(s, "\n")

\* A fence line of micromark-extension-frontmatter (yaml): exactly "---",
\* then spaces or tabs only.
IsFenceLine(line) ==
    /\ startsWith(line, FrontmatterFence)
    /\ \A i \in 4..Len(line) : line[i] \in {" ", "\t"}

\* The line that closes the frontmatter the document opens with; 0 when
\* the document has none: the opening fence must be line 1 and be followed
\* by a line ending; the closing fence may end the document.
closingFenceLine(lines) ==
    IF Len(lines) < 2 \/ ~IsFenceLine(lines[1]) THEN 0
    ELSE LET at == {i \in 2..Len(lines) : IsFenceLine(lines[i])}
         IN  IF at = {} THEN 0 ELSE CHOOSE i \in at : \A j \in at : i <= j

\* node.value of the yaml node: the text between the fences.
yamlValue(lines) == join(SubSeq(lines, 2, closingFenceLine(lines) - 1), NewLine)

\* The lines fromMarkdown parses as the document's flow after the yaml node.
bodyLines(lines) == SubSeq(lines, closingFenceLine(lines) + 1, Len(lines))

ApplyToKey == <<"a","p","p","l","y","T","o",":">>
GlobsKey == <<"g","l","o","b","s",":"," ">>

\* What "." does not match and "^", "$" (flag m) stand next to.
IsLineTerminator(c) == c \in {"\n", "\r"}

\* The last position of the line that holds position i.
lineEnd(s, i) ==
    LET at == {j \in i..Len(s) : IsLineTerminator(s[j])}
    IN  IF at = {} THEN Len(s) ELSE (CHOOSE j \in at : \A k \in at : j <= k) - 1

\* The match of /^applyTo:\s*(.+)$/m that starts at p, as <<first, last>>
\* position of group 1; <<0, 0>> when there is none. \s* is greedy and runs
\* over line endings; it gives back characters until (.+) has one to take.
applyToMatch(s, p) ==
    IF ~(/\ (p = 1 \/ IsLineTerminator(s[p - 1]))
         /\ p + 7 <= Len(s)
         /\ SubSeq(s, p, p + 7) = ApplyToKey)
    THEN <<0, 0>>
    ELSE LET q == p + 8
             ks == {k \in 0..spaceRun(s, q) :
                      q + k <= Len(s) /\ ~IsLineTerminator(s[q + k])}
         IN  IF ks = {} THEN <<0, 0>>
             ELSE LET k == CHOOSE x \in ks : \A y \in ks : y <= x
                  IN  <<q + k, lineEnd(s, q + k)>>

\* String.prototype.replace with the g flag, from position p on.
RECURSIVE replaceApplyTo(_, _)
replaceApplyTo(s, p) ==
    IF p > Len(s) THEN <<>>
    ELSE LET m == applyToMatch(s, p)
         IN  IF m[1] = 0 THEN <<s[p]>> \o replaceApplyTo(s, p + 1)
             ELSE GlobsKey \o SubSeq(s, m[1], m[2]) \o replaceApplyTo(s, m[2] + 1)

\* frontmatterValue.replace(/^applyTo:\s*(.+)$/gm, 'globs: $1')
transformFrontmatterFields(frontmatterValue) == replaceApplyTo(frontmatterValue, 1)

HeadingPrefix == <<"#", " ">>
BulletPrefixes == {<<"-", " ">>, <<"*", " ">>}
Bullet == <<"*", " ">>

IsBulletLine(line) == \E b \in BulletPrefixes : startsWith(line, b)

\* fromMarkdown then toMarkdown on the flow after the frontmatter, for
\* bodies made of ATX headings, paragraphs of plain words and tight bullet
\* lists kept apart by blank lines: the blocks as toMarkdown writes them.
\* open tells which block the next line may continue.
RECURSIVE flowBlocks(_, _, _, _)
flowBlocks(lines, i, blocks, open) ==
    IF i > Len(lines) THEN blocks
    ELSE LET line == lines[i]
             n == Len(blocks)
         IN  IF trim(line) = <<>> THEN flowBlocks(lines, i + 1, blocks, "none")
             ELSE IF startsWith(line, HeadingPrefix)
             THEN flowBlocks(lines, i + 1,
                             Append(blocks, HeadingPrefix \o trim(SubSeq(line, 3, Len(line)))),
                             "none")
             ELSE IF IsBulletLine(line)
             THEN LET item == Bullet \o trim(SubSeq(line, 3, Len(line)))
                  IN  IF open = "list"
                      THEN flowBlocks(lines, i + 1,
                                      [blocks EXCEPT ![n] = @ \o NewLine \o item], "list")
                      ELSE flowBlocks(lines, i + 1, Append(blocks, item), "list")
             ELSE IF open = "paragraph"
             THEN flowBlocks(lines, i + 1,
                             [blocks EXCEPT ![n] = @ \o NewLine \o trim(line)], "paragraph")
             ELSE flowBlocks(lines, i + 1, Append(blocks, trim(line)), "paragraph")

\* toMarkdown(ast, frontmatterToMarkdown): the yaml node between its fences,
\* the blocks of the flow one blank line apart, and a final line ending.
toMarkdown(value, body) ==
    join(<<FrontmatterFence \o NewLine \o value \o NewLine \o FrontmatterFence>>
           \o flowBlocks(body, 1, <<>>, "none"),
         NewLine \o NewLine)
    \o NewLine

\* processFrontmatter: the content itself unless the yaml node was changed.
processFrontmatter(content) ==
    LET lines == Lines(content)
    IN  IF closingFenceLine(lines) = 0 THEN content
        ELSE LET value == yamlValue(lines)
                 transformedValue == transformFrontmatterFields(value)
             IN  IF transformedValue = value THEN content
                 ELSE toMarkdown(transformedValue, bodyLines(lines))

\* What copyTemplateFile writes for a source content.
TransformContent(a, content) ==
    CASE a = "gemini" -> stripFrontmatter(content)
      [] a = "cursor" -> processFrontmatter(content)
      [] OTHER        -> content

\* The state the copier threads through a batch: the files written, the
\* names warned about, whether an exception left the batch, and the paths
\* given to fs.stat (and, for a regular file, to fs.readFile).
CopyState(r, w) == [rules |-> r, warnings |-> w, thrown |-> FALSE, stats |-> <<>>]

WriteFile(files, path, content) ==
    [q \in (DOMAIN files) \cup {path} |-> IF q = path THEN content ELSE files[q]]

\* What fs.stat finds at a path: the listing describes the template
\* directory, and nothing is known to exist anywhere else.
StatPath(listing, templateDir, p) ==
    IF dirname(p) = templateDir THEN Stat(listing, basename(p)) ELSE NoEntry

\* The same from the decoded path alone.
fullTemplatePathDecoded(templateFilePath, sanitizedTemplateFile) ==
    normalize(decodeURIComponent(templateFilePath))

\* path.join(path.dirname(templateFilePath), sanitizedTemplateFile)
fullTemplatePath(templateFilePath, sanitizedTemplateFile) ==
    pathJoin(dirname(templateFilePath), sanitizedTemplateFile)

\* copyTemplateFile(templateFilePath, targetDir, targetDir, suffix).
\* decodeURIComponent runs before the try block: its URIError is not caught.
copyTemplateFile(a, st, listing, templateFilePath, targetDir) ==
    LET decodedPath == decodeURIComponent(templateFilePath)
    IN  IF decodedPath = URIError THEN [st EXCEPT !.thrown = TRUE]
        ELSE
        LET sanitizedTemplateFile == basename(normalize(decodedPath))
            source == fullTemplatePath(templateFilePath, sanitizedTemplateFile)
            entry == StatPath(listing, dirname(templateFilePath), source)
            seen == [st EXCEPT !.stats = Append(@, source)]
            warn == [seen EXCEPT !.warnings = Append(@, sanitizedTemplateFile)]
        IN  IF entry.kind = "missing" THEN warn
            ELSE IF entry.kind # "file" THEN seen
            ELSE
            LET targetFileName == generateTargetFileName(sanitizedTemplateFile, filesSuffix(a))
                targetPath == pathJoin(targetDir, targetFileName)
                resolvedTargetFilePath == validateTargetPath(targetPath, targetDir)
            IN  IF resolvedTargetFilePath \in {URIError, InvalidTargetPath} THEN warn
                ELSE IF ~entry.readable THEN warn
                ELSE [seen EXCEPT !.rules =
                        WriteFile(@, resolvedTargetFilePath, TransformContent(a, entry.content))]

MarkdownExt == <<".","m","d">>

\* The main-context adapters skip the entries that do not end in '.md';
\* the Cursor and GitHub Copilot adapters take every entry.
MarkdownOnly(a) == a \in MainContextAdapters

\* copyTemplateFiles: one pass over the listing.
RECURSIVE copyFrom(_, _, _, _, _, _)
copyFrom(a, st, listing, i, templateDir, targetDir) ==
    IF i > Len(listing) \/ st.thrown THEN st
    ELSE IF MarkdownOnly(a) /\ ~endsWith(listing[i].name, MarkdownExt)
    THEN copyFrom(a, st, listing, i + 1, templateDir, targetDir)
    ELSE copyFrom(a,
                  copyTemplateFile(a, st, listing, pathJoin(templateDir, listing[i].name), targetDir),
                  listing, i + 1, templateDir, targetDir)

copyTemplateFiles(a, st, listing, templateDir, targetDir) ==
    copyFrom(a, st, listing, 1, templateDir, targetDir)

-----------------------------------------------------------------------------
(* The main-context merge of ClaudeCodeAdapter and GeminiAdapter.          *)

HeadingMark == <<"#", " ">>

\* The same with a guard that asks for every import entry to be present.
addImportsToContentAllPresent(content, categoryLabel, imports, parseThrows) ==
    LET existingContent == toLowerCase(content)
        categoryExists == includes(existingContent, toLowerCase(HeadingMark \o categoryLabel))
        hasExistingImports ==
            \A i \in 1..Len(imports) : includes(existingContent, toLowerCase(imports[i]))
        trimmed == trim(content)
        separated == IF Len(trimmed) > 0 THEN trimmed \o NewLine \o NewLine ELSE trimmed
        header == HeadingMark \o categoryLabel \o NewLine \o NewLine
        list == join(imports, NewLine) \o NewLine
    IN  IF parseThrows THEN separated \o header \o list
        ELSE IF categoryExists /\ hasExistingImports THEN content
        ELSE IF ~categoryExists THEN separated \o header \o list
        ELSE separated \o list

\* addImportsToClaudeContent / addImportsToGeminiContent. fromMarkdown is
\* total on strings; parseThrows selects the catch branch.
addImportsToContent(content, categoryLabel, imports, parseThrows) ==
    LET existingContent == toLowerCase(content)
        categoryHeaderLower == toLowerCase(HeadingMark \o categoryLabel)
        categoryExists == includes(existingContent, categoryHeaderLower)
        hasExistingImports ==
            \E i \in 1..Len(imports) : includes(existingContent, toLowerCase(imports[i]))
        trimmed == trim(content)
        separated == IF Len(trimmed) > 0 THEN trimmed \o NewLine \o NewLine ELSE trimmed
        header == HeadingMark \o categoryLabel \o NewLine \o NewLine
        list == join(imports, NewLine) \o NewLine
    IN  IF parseThrows THEN separated \o header \o list
        ELSE IF categoryExists /\ hasExistingImports THEN content
        ELSE IF ~categoryExists THEN separated \o header \o list
        ELSE separated \o list

RECURSIVE importsFrom(_, _, _)
importsFrom(a, listing, i) ==
    IF i > Len(listing) THEN <<>>
    ELSE IF endsWith(listing[i].name, MarkdownExt)
    THEN <<ImportPrefix(a) \o generateTargetFileName(listing[i].name, filesSuffix(a))>>
         \o importsFrom(a, listing, i + 1)
    ELSE importsFrom(a, listing, i + 1)

\* The import entries updateClaudeMainFile / updateGeminiMainFile build.
ImportsOf(a, listing) == importsFrom(a, listing, 1)

\* The same without the return on an empty list of imports.
updateMainFileAlways(a, file, topic, listing) ==
    addImportsToContent(IF file = Absent THEN <<>> ELSE file, TopicLabel(topic),
                        ImportsOf(a, listing), FALSE)

\* updateClaudeMainFile / updateGeminiMainFile: the main file afterwards.
updateMainFile(a, file, topic, listing) ==
    LET content == IF file = Absent THEN <<>> ELSE file
        imports == ImportsOf(a, listing)
    IN  IF Len(imports) = 0 THEN file
        ELSE addImportsToContent(content, TopicLabel(topic), imports, FALSE)

-----------------------------------------------------------------------------
(* Specification Spec: processInstructions of a main-context adapter,      *)
(* called again and again against one project.                            *)

MaxCalls == 3

TestingHeading == <<"#"," ","T","e","s","t","i","n","g">>
TestingImport(a) == ImportPrefix(a) \o <<"t","e","s","t","i","n","g",".","m","d">>
CpImport(a) == ImportPrefix(a) \o <<"c","p",".","m","d">>
Prose == <<"x">>
Blank == <<"\n","\n">>

\* The main-context documents a project may hold before the first call:
\* none, an empty one, prose with and without white space around it, and
\* documents that already hold a heading or an import entry, written in
\* either case, once or twice.
InitialDocuments(a) ==
    { Absent,
      <<>>,
      Prose,
      Prose \o NewLine,
      <<" "," "," "," ">> \o Prose \o Blank,
      NewLine \o Prose \o <<" ">>,
      TestingHeading \o NewLine,
      Prose \o Blank \o TestingHeading,
      TestingHeading \o <<" ">>,
      toLowerCase(TestingHeading) \o Blank \o toLowerCase(TestingImport(a)) \o NewLine,
      TestingHeading \o Blank \o TestingImport(a) \o NewLine,
      TestingImport(a) \o NewLine,
      TestingHeading \o Blank \o CpImport(a) \o NewLine,
      <<"#"," ","S","e","c","u","r","e"," ","C","o","d","i","n","g">> \o Blank
          \o CpImport(a) \o NewLine \o Prose \o NewLine }

InitMain ==
    /\ adapter \in MainContextAdapters
    /\ mainFile \in InitialDocuments(adapter)
    /\ rules = <<>>
    /\ warnings = <<>>
    /\ hist = <<>>

\* processInstructions(scaffoldInstructions, templateDir, targetDir)
ProcessInstructions(topic) ==
    /\ Len(hist) < MaxCalls
    /\ LET listing == TemplateListing(topic)
           templateDir == <<"/","t">> \o Slash \o TopicText(topic)
           targetDir == TargetDirectory(adapter)
           copied == copyTemplateFiles(adapter, CopyState(rules, warnings),
                                       listing, templateDir, targetDir)
           updated == IF copied.thrown THEN mainFile
                      ELSE updateMainFile(adapter, mainFile, topic, listing)
       IN  /\ rules' = copied.rules
           /\ warnings' = copied.warnings
           /\ mainFile' = updated
           /\ hist' = Append(hist, [topic |-> topic, before |-> mainFile,
                                    after |-> updated, threw |-> copied.thrown])
    /\ UNCHANGED adapter

-----------------------------------------------------------------------------
(* JSON: values, JSON.parse, JSON.stringify, own properties and spread.    *)
(* An object is the sequence of its <<key, value>> properties in insertion *)
(* order; an array is held the same way under its index keys.              *)

JValue(t, kv, v) == [t |-> t, kv |-> kv, v |-> v]
JObject(kv) == JValue("object", kv, "")
JArray(kv)  == JValue("array", kv, "")
JString(v)  == JValue("string", <<>>, v)
JNumber(v)  == JValue("number", <<>>, v)
JNull       == JValue("null", <<>>, "")
EmptyObject == JObject(<<>>)

Keys(kv) == {kv[i][1] : i \in 1..Len(kv)}

Get(kv, k) == kv[CHOOSE i \in 1..Len(kv) : kv[i][1] = k][2]

\* CreateDataProperty in property order: an existing key keeps its place.
SetProperty(kv, k, v) ==
    IF k \in Keys(kv)
    THEN [i \in 1..Len(kv) |-> IF kv[i][1] = k THEN <<k, v>> ELSE kv[i]]
    ELSE Append(kv, <<k, v>>)

\* { ...target, ...source } on property lists.
RECURSIVE SpreadInto(_, _)
SpreadInto(target, source) ==
    IF source = <<>> THEN target
    ELSE SpreadInto(SetProperty(target, source[1][1], source[1][2]), Tail(source))

\* The own enumerable properties a spread copies: those of an object or an
\* array; null and numbers give none.
OwnProperties(value) ==
    IF value.t \in {"object", "array"} THEN value.kv ELSE <<>>

\* Object.hasOwn(value, key) throws a TypeError on null (ToObject fails).
hasOwnThrows(value) == value.t = "null"

\* Object.hasOwn(value, key) otherwise: false on a key that an array or a
\* primitive does not own.
hasOwn(value, key) == value.t \in {"object", "array"} /\ key \in Keys(value.kv)

\* templateValue && typeof templateValue === 'object' && !Array.isArray(templateValue)
IsPlainObject(value) == value.t = "object"

\* A file: its text is JSON in some layout, or not JSON, or there is no file.
JsonText(layout, value) == [layout |-> layout, value |-> value]
NoFile == JsonText("absent", JNull)
Garbage == JsonText("malformed", JNull)

SyntaxError == JValue("SyntaxError", <<>>, "")

\* JSON.parse(text): the value, whatever the layout; SyntaxError when it throws.
JSONparse(text) == IF text.layout = "malformed" THEN SyntaxError ELSE text.value

\* JSON.stringify(value, null, 2): always the two-space indented layout.
JSONstringify(value) == JsonText("indent2", value)

-----------------------------------------------------------------------------
(* BaseAdapter.processMcpConfiguration.                                    *)

DefaultMergeKey == "mcpServers"

\* getMcpConfig().mergeKey of the adapters that support MCP: 'servers'
\* (GitHub Copilot) and 'mcpServers' (Gemini).
MergeKeys == {"servers", "mcpServers"}

\* keysToTry without the fallback to the conventional template key.
keysToTryNoFallback(key) == <<key>>

keysToTry(key) == IF key = DefaultMergeKey THEN <<DefaultMergeKey>> ELSE <<key, DefaultMergeKey>>

\* The loop over keysToTry: the first key the template owns with a plain
\* object value; {} when there is none. (The template is not null here.)
RECURSIVE templateServersFrom(_, _)
templateServersFrom(template, keys) ==
    IF keys = <<>> THEN <<>>
    ELSE IF hasOwn(template, keys[1]) /\ IsPlainObject(Get(template.kv, keys[1]))
    THEN Get(template.kv, keys[1]).kv
    ELSE templateServersFrom(template, Tail(keys))

templateServers(template, key) == templateServersFrom(template, keysToTry(key))

\* existingConfig without the inner try: a SyntaxError leaves the read.
existingConfigUncaught(file) ==
    IF file.layout = "absent" THEN EmptyObject ELSE JSONparse(file)

\* existingConfig: {} when the target is absent or does not parse.
existingConfigOf(file) ==
    IF file.layout = "absent" \/ JSONparse(file) = SyntaxError THEN EmptyObject
    ELSE JSONparse(file)

\* existingServers taken from the whole existing config instead of its mergeKey entry.
existingServersOfWholeConfig(existing, key) == OwnProperties(existing)

existingServers(existing, key) ==
    IF hasOwn(existing, key) /\ IsPlainObject(Get(existing.kv, key))
    THEN Get(existing.kv, key).kv
    ELSE <<>>

\* The merge with the two spreads of the servers in the other order.
mergedConfigExistingWins(existing, tplServers, key) ==
    JObject(SetProperty(OwnProperties(existing), key,
                        JObject(SpreadInto(tplServers, existingServers(existing, key)))))

\* The merge without the spread of existingConfig.
mergedConfigServersOnly(existing, tplServers, key) ==
    JObject(<< <<key, JObject(SpreadInto(existingServers(existing, key), tplServers))>> >>)

\* { ...existingConfig, [mergeKey]: { ...existingServers, ...templateServers } }
mergedConfig(existing, tplServers, key) ==
    JObject(SetProperty(OwnProperties(existing), key,
                        JObject(SpreadInto(existingServers(existing, key), tplServers))))

\* The outcome of one call: the target file afterwards, whether it was
\* written (after mkdir of its directory), and whether console.warn ran.
Written(file) == [file |-> file, written |-> TRUE, warned |-> FALSE]
Warned(file) == [file |-> file, written |-> FALSE, warned |-> TRUE]

\* processMcpConfiguration that takes an unreadable template for an empty one.
processMcpLenient(template, target, key) ==
    LET tpl == IF template.layout = "absent" \/ JSONparse(template) = SyntaxError
               THEN EmptyObject ELSE JSONparse(template)
        existing == existingConfigOf(target)
    IN  IF hasOwnThrows(tpl) \/ hasOwnThrows(existing) THEN Warned(target)
        ELSE Written(JSONstringify(mergedConfig(existing, templateServers(tpl, key), key)))

\* The body of processMcpConfiguration for a non-null getMcpConfig(): any
\* exception inside the try block (a failed read or parse of the template,
\* Object.hasOwn on null, an error that leaves the read of the target)
\* ends in the catch block's console.warn, before mkdir and writeFile.
processMcp(template, target, key) ==
    IF template.layout = "absent" \/ JSONparse(template) = SyntaxError
    THEN Warned(target)
    ELSE LET tpl == JSONparse(template)
         IN  IF hasOwnThrows(tpl) THEN Warned(target)
             ELSE LET existing == existingConfigOf(target)
                  IN  IF existing = SyntaxError \/ hasOwnThrows(existing)
                      THEN Warned(target)
                      ELSE Written(JSONstringify(
                               mergedConfig(existing, templateServers(tpl, key), key)))

-----------------------------------------------------------------------------
(* Specification SpecMcp: processMcpConfiguration called again and again   *)
(* with one template against one target file.                             *)

MaxMcpCalls == 2

TemplateDefinition == JObject(<< <<"command", JString("npx")>> >>)
ExistingDefinition == JObject(<< <<"command", JString("old")>> >>)

\* Values under a servers key that are not a servers map.
WrongShaped == {JNull, JArray(<< <<"0", JString("x")>> >>), JString("x")}

TemplateServerMaps ==
    { <<>>,
      << <<"Snyk", TemplateDefinition>> >>,
      << <<"Snyk", TemplateDefinition>>, <<"Docs", TemplateDefinition>> >> }

ExistingServerMaps ==
    { <<>>,
      << <<"Custom", ExistingDefinition>> >>,
      << <<"Snyk", ExistingDefinition>> >>,
      << <<"Custom", ExistingDefinition>>, <<"Snyk", ExistingDefinition>> >>,
      << <<"Snyk", TemplateDefinition>>, <<"Custom", ExistingDefinition>> >> }

TemplateValuesOf(k) == {JObject(m) : m \in TemplateServerMaps} \cup WrongShaped

ExistingValuesOf(k) ==
    IF k = "other" THEN {JObject(<< <<"setting", JString("value")>> >>)}
    ELSE {JObject(m) : m \in ExistingServerMaps} \cup WrongShaped

ValuesOf(side, k) == IF side = "template" THEN TemplateValuesOf(k) ELSE ExistingValuesOf(k)

\* The property lists that hold, in order, at most one entry per key of keys.
RECURSIVE PropertyLists(_, _)
PropertyLists(keys, side) ==
    IF keys = <<>> THEN {<<>>}
    ELSE LET rest == PropertyLists(Tail(keys), side)
         IN  rest \cup {<< <<keys[1], v>> >> \o r : v \in ValuesOf(side, keys[1]), r \in rest}

NonObjects == {JNull, JArray(<< <<"0", JString("x")>> >>), JNumber("7")}

Layouts == {"indent2", "compact"}

TemplateFiles ==
    {NoFile, Garbage}
    \cup {JsonText("indent2", v) : v \in NonObjects}
    \cup {JsonText("indent2", JObject(kv)) :
            kv \in PropertyLists(<<"servers", "mcpServers">>, "template")}

TargetFiles ==
    {NoFile, Garbage}
    \cup {JsonText(l, v) : l \in Layouts, v \in NonObjects}
    \cup {JsonText(l, JObject(kv)) : l \in Layouts,
            kv \in PropertyLists(<<"other", "servers", "mcpServers">>, "existing")}

InitMcp ==
    /\ mergeKey \in MergeKeys
    /\ tplFile \in TemplateFiles
    /\ mcpFile \in TargetFiles
    /\ mcpDirMade = FALSE
    /\ mcpWarned = 0
    /\ mcpHist = <<>>

\* processMcpConfiguration(scaffoldInstructions, mcpTemplateDir, targetDir)
\* of an adapter whose getMcpConfig() is not null. Every exception is caught
\* and reported by console.warn; nothing is thrown to the caller.
ProcessMcpConfiguration ==
    /\ Len(mcpHist) < MaxMcpCalls
    /\ LET out == processMcp(tplFile, mcpFile, mergeKey)
       IN  /\ mcpFile' = out.file
           /\ mcpDirMade' = (mcpDirMade \/ out.written)
           /\ mcpWarned' = IF out.warned THEN mcpWarned + 1 ELSE mcpWarned
           /\ mcpHist' = Append(mcpHist, [before |-> mcpFile, after |-> out.file,
                                          written |-> out.written,
                                          warned |-> out.warned,
                                          dirBefore |-> mcpDirMade,
                                          dirAfter |-> (mcpDirMade \/ out.written)])
    /\ UNCHANGED <<mergeKey, tplFile>>

-----------------------------------------------------------------------------
(* Specification SpecPath: validateTargetPath applied to candidate paths.  *)

MaxPathSegments == 2

BaseDirectories == {TargetDirectory("claude-code"), TargetDirectory("gemini")}

\* What a candidate is made of: plain names, traversal segments, their
\* percent-encoded forms and a malformed escape.
PathSegments ==
    { DotDot,
      <<"%","2","e","%","2","E">>,
      Dot,
      <<"a",".","m","d">>,
      <<"r","u","l","e","s","-","o","l","d">>,
      <<"%","z">> }

PathSeparators == { Slash, <<"%","2","f">> }

RECURSIVE Suffixes(_)
Suffixes(n) ==
    IF n = 0 THEN {<<>>}
    ELSE LET shorter == Suffixes(n - 1)
         IN  shorter \cup {sep \o seg \o t : sep \in PathSeparators, seg \in PathSegments,
                                              t \in shorter}

\* Candidates below the base, relative to process.cwd(), and absolute.
CandidatePaths(base) ==
    {start \o t : start \in {base, <<>>, <<"r">>, <<"/","e","t","c">>},
                  t \in Suffixes(MaxPathSegments)}

NotValidated == <<"none">>

PathInit ==
    /\ \E base \in BaseDirectories : \E candidate \in CandidatePaths(base) :
           pathIn = <<candidate, base>>
    /\ pathOut = NotValidated

PathIdle ==
    /\ pathIn = <<NotValidated, NotValidated>>
    /\ pathOut = NotValidated

\* validateTargetPath(targetFilePath, baseDirectory), once on the input.
ValidateTargetPath ==
    /\ pathOut = NotValidated
    /\ pathOut' = validateTargetPath(pathIn[1], pathIn[2])
    /\ UNCHANGED pathIn

-----------------------------------------------------------------------------
(* Specification SpecCopy: one copy pass of an adapter (copyTemplateFiles  *)
(* of processInstructions) over a flat template directory.                 *)

MaxListing == 3

\* What a template directory may hold: markdown sources with and without
\* the ".instructions" marker and with and without frontmatter, a file
\* that cannot be read, a directory, a file that is not markdown, a file
\* whose name holds a "%" that is no percent escape, and a file whose name
\* is the percent-encoded form of "../a.md".
DirectoryEntries ==
    { File(<<"a",".","m","d">>, <<"A","\n">>),
      File(<<"a",".","i","n","s","t","r","u","c","t","i","o","n","s",".","m","d">>, <<"-","-","-","\n","a","p","p","l","y","T","o",":"," ","x","\n","-","-","-","\n","I","\n">>),
      File(<<"b",".","m","d">>, <<"-","-","-","\n","d",":"," ","y","\n","-","-","-","\n","\n","B">>),
      Unreadable(<<"l","o","c","k","e","d",".","m","d">>),
      Directory(<<"s","u","b">>),
      File(<<"n","o","t","e","s",".","t","x","t">>, <<"N">>),
      File(<<"5","0","%",".","m","d">>, <<"P">>),
      File(<<"%","2","e","%","2","e","%","2","f","a",".","m","d">>, <<"E">>) }

\* The listings fs.readdir may return: entries under distinct names.
RECURSIVE Listings(_)
Listings(n) ==
    IF n = 0 THEN {<<>>}
    ELSE LET shorter == Listings(n - 1)
         IN  shorter \cup
             UNION {{Append(l, e) :
                       e \in {d \in DirectoryEntries :
                                \A i \in 1..Len(l) : l[i].name # d.name}} :
                    l \in {k \in shorter : Len(k) = n - 1}}

TemplateDirectory == <<"/","t","/","n","o","d","e","j","s","/","t","o","p","i","c">>

NotCopied ==
    [rules |-> <<>>, warnings |-> <<>>, thrown |-> FALSE, stats |-> <<>>, done |-> FALSE]

\* The pass has ended and left st.
Copied(st) ==
    [rules |-> st.rules, warnings |-> st.warnings, thrown |-> st.thrown, stats |-> st.stats,
     done |-> TRUE]

CopyInit ==
    /\ \E a \in Adapters : \E l \in Listings(MaxListing) : copyIn = <<a, l>>
    /\ copyOut = NotCopied

CopyIdle ==
    /\ copyIn = <<"claude-code", <<>>>>
    /\ copyOut = NotCopied

\* The copy pass of processInstructions into an empty target directory.
CopyTemplateFiles ==
    /\ ~copyOut.done
    /\ copyOut' = Copied(copyTemplateFiles(copyIn[1], CopyState(<<>>, <<>>), copyIn[2],
                                           TemplateDirectory, TargetDirectory(copyIn[1])))
    /\ UNCHANGED copyIn

-----------------------------------------------------------------------------
(* scaffoldAiAppInstructions of main.ts: the checks of the request, then   *)
(* the target directory, then the copy.                                    *)

\* A field of ScaffoldInstructions: a string, or undefined.
Field(v) == [given |-> TRUE, value |-> v]
Missing == [given |-> FALSE, value |-> <<>>]

\* !field
Falsy(f) == ~f.given \/ f.value = <<>>

GitHubCopilotId == <<"g","i","t","h","u","b","-","c","o","p","i","l","o","t">>

\* mapAiAppsToDirectories: its own keys.
SupportedIds == {GitHubCopilotId}

\* mapAiAppsToDirectories[aiApp]
AiAppConfigOf(aiApp) ==
    [directory |-> <<".","g","i","t","h","u","b","/","i","n","s","t","r","u","c","t","i","o","n","s">>, filesSuffix |-> filesSuffix("github-copilot")]

\* getAiAppDirectory: Object.hasOwn keeps inherited names ("toString") out.
IsSupportedApp(aiApp) == aiApp \in SupportedIds

TemplateRoot == <<"/","p","k","g","/","_","_","t","e","m","p","l","a","t","e","_","_">>

\* What fs.stat finds at __template__/<codeLanguage>/<codeTopic>: the
\* package ships nodejs/secure-code as a directory; nodejs/README.md stands
\* for a path that exists and is no directory.
templateKind(codeLanguage, codeTopic) ==
    IF codeLanguage = <<"n","o","d","e","j","s">> /\ codeTopic = <<"s","e","c","u","r","e","-","c","o","d","e">> THEN "dir"
    ELSE IF codeLanguage = <<"n","o","d","e","j","s">> /\ codeTopic = <<"R","E","A","D","M","E",".","m","d">> THEN "file"
    ELSE "missing"

\* resolveTemplateDirectory: the resolved path.
resolveTemplateDirectory(request) ==
    resolve(pathJoin(pathJoin(TemplateRoot, request.codeLanguage.value),
                     request.codeTopic.value))

\* resolveTemplateDirectory returns (does not throw).
TemplateDirectoryFound(request) ==
    templateKind(request.codeLanguage.value, request.codeTopic.value) = "dir"

\* createTargetDirectory: fs.mkdir(resolved, {recursive: true}).
createTargetDirectory(dirs, directory) ==
    LET resolvedTargetDirectory == resolve(directory)
    IN  dirs \cup {resolvedTargetDirectory, dirname(resolvedTargetDirectory)}

\* validateTargetPath of main.ts: path.resolve, then the prefix test.
mainValidateTargetPath(targetFilePath, resolvedTargetDirectory) ==
    LET resolvedTargetFilePath == resolve(targetFilePath)
    IN  IF startsWith(resolvedTargetFilePath, resolvedTargetDirectory)
        THEN resolvedTargetFilePath
        ELSE InvalidTargetPath

\* copyTemplateFile of main.ts: everything after the basename is in the try.
mainCopyTemplateFile(st, listing, templateFilePath, targetDir, suffix) ==
    LET sanitizedTemplateFile == basename(templateFilePath)
        source == fullTemplatePath(templateFilePath, sanitizedTemplateFile)
        entry == StatPath(listing, dirname(templateFilePath), source)
        seen == [st EXCEPT !.stats = Append(@, source)]
        warn == [seen EXCEPT !.warnings = Append(@, sanitizedTemplateFile)]
    IN  IF entry.kind = "missing" THEN warn
        ELSE IF entry.kind # "file" THEN seen
        ELSE
        LET targetFileName == generateTargetFileName(sanitizedTemplateFile, suffix)
            targetPath == pathJoin(targetDir, targetFileName)
            resolvedTargetFilePath == mainValidateTargetPath(targetPath, targetDir)
        IN  IF resolvedTargetFilePath = InvalidTargetPath THEN warn
            ELSE IF ~entry.readable THEN warn
            ELSE [seen EXCEPT !.rules = WriteFile(@, resolvedTargetFilePath, entry.content)]

\* copyTemplateFiles of main.ts.
RECURSIVE mainCopyFrom(_, _, _, _, _, _)
mainCopyFrom(st, listing, i, templateDir, targetDir, suffix) ==
    IF i > Len(listing) THEN st
    ELSE mainCopyFrom(mainCopyTemplateFile(st, listing, pathJoin(templateDir, listing[i].name),
                                           targetDir, suffix),
                      listing, i + 1, templateDir, targetDir, suffix)

MissingChoices == "Scaffold instructions must include aiApp and all other template choices."
NotSupported == "AI App is not supported."
TemplateNotFound == "Template directory not found"
NoError == "none"

Outcome(thrown, dirs, files, warned) ==
    [thrown |-> thrown, dirs |-> dirs, files |-> files, warnings |-> warned, done |-> TRUE]

\* The request resolves: the directories and what the copy pass st left.
Scaffolded(dirs, st) == Outcome(NoError, dirs, st.rules, st.warnings)

\* The same steps with the target directory made before the template
\* directory is resolved.
scaffoldDirectoryFirst(request, listing, project) ==
    IF Falsy(request.aiApp) \/ Falsy(request.codeLanguage) \/ Falsy(request.codeTopic)
    THEN Outcome(MissingChoices, project.dirs, project.files, <<>>)
    ELSE IF ~IsSupportedApp(request.aiApp.value)
    THEN Outcome(NotSupported, project.dirs, project.files, <<>>)
    ELSE
    LET config == AiAppConfigOf(request.aiApp.value)
        made == createTargetDirectory(project.dirs, config.directory)
    IN  IF ~TemplateDirectoryFound(request)
        THEN Outcome(TemplateNotFound, made, project.files, <<>>)
        ELSE Scaffolded(made, mainCopyFrom(CopyState(project.files, <<>>), listing, 1,
                                           resolveTemplateDirectory(request),
                                           resolve(config.directory), config.filesSuffix))

\* scaffoldAiAppInstructions: the field check, getAiAppDirectory,
\* resolveTemplateDirectory, createTargetDirectory, copyTemplateFiles.
scaffoldAiAppInstructions(request, listing, project) ==
    IF Falsy(request.aiApp) \/ Falsy(request.codeLanguage) \/ Falsy(request.codeTopic)
    THEN Outcome(MissingChoices, project.dirs, project.files, <<>>)
    ELSE IF ~IsSupportedApp(request.aiApp.value)
    THEN Outcome(NotSupported, project.dirs, project.files, <<>>)
    ELSE IF ~TemplateDirectoryFound(request)
    THEN Outcome(TemplateNotFound, project.dirs, project.files, <<>>)
    ELSE
    LET config == AiAppConfigOf(request.aiApp.value)
    IN  Scaffolded(createTargetDirectory(project.dirs, config.directory),
                   mainCopyFrom(CopyState(project.files, <<>>), listing, 1,
                                resolveTemplateDirectory(request),
                                resolve(config.directory), config.filesSuffix))

-----------------------------------------------------------------------------
(* Specification SpecScaffold: one scaffoldAiAppInstructions request.      *)

MaxScaffoldListing == 1

RequestApps == {Missing, Field(<<>>), Field(GitHubCopilotId), Field(<<"c","u","r","s","o","r">>),
                Field(<<"t","o","S","t","r","i","n","g">>)}
RequestLanguages == {Missing, Field(<<>>), Field(<<"n","o","d","e","j","s">>), Field(<<"p","y","t","h","o","n">>)}
RequestTopics == {Missing, Field(<<>>), Field(<<"s","e","c","u","r","e","-","c","o","d","e">>), Field(<<"R","E","A","D","M","E",".","m","d">>),
                  Field(<<"n","o","-","s","u","c","h","-","t","o","p","i","c">>)}

Requests ==
    {[aiApp |-> a, codeLanguage |-> l, codeTopic |-> t] :
        a \in RequestApps, l \in RequestLanguages, t \in RequestTopics}

\* The project before the request: empty, or already scaffolded once.
Projects ==
    { [dirs |-> {}, files |-> <<>>],
      [dirs |-> createTargetDirectory({}, <<".","g","i","t","h","u","b","/","i","n","s","t","r","u","c","t","i","o","n","s">>),
       files |-> WriteFile(<<>>, <<"/","p","/",".","g","i","t","h","u","b","/","i","n","s","t","r","u","c","t","i","o","n","s","/","a",".","i","n","s","t","r","u","c","t","i","o","n","s",".","m","d">>, <<"o","l","d">>)] }

NotScaffolded == [thrown |-> NoError, dirs |-> {}, files |-> <<>>, warnings |-> <<>>, done |-> FALSE]

ScaffoldInit ==
    /\ \E r \in Requests : \E l \in Listings(MaxScaffoldListing) : \E p \in Projects :
          scaffoldIn = [request |-> r, listing |-> l, project |-> p]
    /\ scaffoldOut = NotScaffolded

ScaffoldIdle ==
    /\ scaffoldIn = [request |-> [aiApp |-> Missing, codeLanguage |-> Missing, codeTopic |-> Missing],
                     listing |-> <<>>, project |-> [dirs |-> {}, files |-> <<>>]]
    /\ scaffoldOut = NotScaffolded

ScaffoldAiAppInstructions ==
    /\ ~scaffoldOut.done
    /\ scaffoldOut' = scaffoldAiAppInstructions(scaffoldIn.request, scaffoldIn.listing,
                                                scaffoldIn.project)
    /\ UNCHANGED scaffoldIn

-----------------------------------------------------------------------------
(* Specification SpecDoc: the frontmatter transforms on one document:      *)
(* CursorAdapter.processFrontmatter and GeminiAdapter.stripFrontmatter.    *)

MaxFields == 2

\* Lines a metadata block is made of: applyTo with a scalar, with no value
\* (a list item may follow), with a double-quoted scalar that is never
\* closed, a list item, and a sibling field.
FieldLines ==
    { <<"a","p","p","l","y","T","o",":"," ","x">>, <<"a","p","p","l","y","T","o",":">>, <<" "," ","-"," ","a">>, <<"d",":"," ","y">>, <<"a","p","p","l","y","T","o",":"," ","\"","x">> }

RECURSIVE FieldBlocks(_)
FieldBlocks(n) ==
    IF n = 0 THEN {<<>>}
    ELSE LET shorter == FieldBlocks(n - 1)
         IN  shorter \cup {Append(b, l) : b \in {k \in shorter : Len(k) = n - 1},
                                          l \in FieldLines}

\* The document opens with a fence, with a fence and a trailing space, or
\* with no fence at all.
Openings == { <<"-","-","-","\n">>, <<"-","-","-"," ","\n">>, <<>> }

\* The block is closed by a fence line, by a fence that ends the document,
\* by a fence with a trailing space, or is not closed.
Closings == { <<"-","-","-","\n">>, <<"-","-","-">>, <<"-","-","-"," ","\n">>, <<>> }

Bodies == { <<>>, <<"T","\n">>, <<"\n","T","\n">>, <<"-"," ","a","\n">> }

Document(opening, fields, closing, body) ==
    opening \o join(fields, NewLine) \o (IF fields = <<>> THEN <<>> ELSE NewLine)
            \o closing \o body

Documents ==
    {Document(o, f, c, b) : o \in Openings, f \in FieldBlocks(MaxFields),
                            c \in Closings, b \in Bodies}

NotRun == [ran |-> FALSE, text |-> <<>>]
Ran(text) == [ran |-> TRUE, text |-> text]

DocInit ==
    /\ docIn \in Documents
    /\ docOut = [cursor |-> NotRun, gemini |-> NotRun]

DocIdle ==
    /\ docIn = <<>>
    /\ docOut = [cursor |-> NotRun, gemini |-> NotRun]

\* CursorAdapter.processFrontmatter(docIn)
ProcessFrontmatter ==
    /\ ~docOut.cursor.ran
    /\ docOut' = [docOut EXCEPT !.cursor = Ran(processFrontmatter(docIn))]
    /\ UNCHANGED docIn

\* GeminiAdapter.stripFrontmatter(docIn)
StripFrontmatter ==
    /\ ~docOut.gemini.ran
    /\ docOut' = [docOut EXCEPT !.gemini = Ran(stripFrontmatter(docIn))]
    /\ UNCHANGED docIn

-----------------------------------------------------------------------------
(* BaseAdapter.processCommandsConfiguration.                               *)

\* getCommandsConfig() returns null.
NoCommandsConfig == [supported |-> FALSE, targetDirectory |-> <<>>, transforms |-> FALSE]

\* A CommandsConfig with and without a fileNameTransform.
CommandsConfig(targetDirectory, transforms) ==
    [supported |-> TRUE, targetDirectory |-> targetDirectory, transforms |-> transforms]

CommandExt == <<".","c","o","m","m","a","n","d",".","m","d">>
PromptExt == <<".","p","r","o","m","p","t",".","m","d">>

\* The first index at which p occurs in s, 0 if it does not.
indexOf(s, p) ==
    LET at == {i \in 1..(Len(s) - Len(p) + 1) : SubSeq(s, i, i + Len(p) - 1) = p}
    IN  IF at = {} THEN 0 ELSE CHOOSE i \in at : \A j \in at : i <= j

\* fileNameTransform: filename.replace('.command.md', '.prompt.md'), which
\* replaces the first occurrence.
fileNameTransform(filename) ==
    LET i == indexOf(filename, CommandExt)
    IN  IF i = 0 THEN filename
        ELSE SubSeq(filename, 1, i - 1) \o PromptExt
             \o SubSeq(filename, i + Len(CommandExt), Len(filename))

CommandsWarning == "Warning: Failed to process commands configuration"

\* The loop over commandFiles; the first stat or read that fails ends it
\* in the catch block.
RECURSIVE copyCommandsFrom(_, _, _, _)
copyCommandsFrom(st, config, files, i) ==
    IF i > Len(files) THEN st
    ELSE IF ~endsWith(files[i].name, CommandExt) THEN copyCommandsFrom(st, config, files, i + 1)
    ELSE IF files[i].kind # "file" THEN copyCommandsFrom(st, config, files, i + 1)
    ELSE IF ~files[i].readable THEN [st EXCEPT !.warnings = Append(@, CommandsWarning)]
    ELSE LET targetFileName == IF config.transforms THEN fileNameTransform(files[i].name)
                                ELSE files[i].name
             targetFilePath == pathJoin(resolve(config.targetDirectory), targetFileName)
         IN  copyCommandsFrom([st EXCEPT !.files = WriteFile(@, targetFilePath, files[i].content)],
                              config, files, i + 1)

CommandsState(dirs, files, warned) == [dirs |-> dirs, files |-> files, warnings |-> warned]

\* The same with the directory listed before the target directory is made
\* and a listing that fails taken as no command files.
processCommandsQuiet(config, template, project) ==
    IF ~config.supported \/ ~template.exists
    THEN CommandsState(project.dirs, project.files, <<>>)
    ELSE copyCommandsFrom(CommandsState(createTargetDirectory(project.dirs, config.targetDirectory),
                                        project.files, <<>>),
                          config, template.listing, 1)

\* processCommandsConfiguration: nothing without a CommandsConfig; else
\* mkdir of the target directory, readdir of the template directory, the
\* copy loop, and one console.warn for whatever throws in between.
processCommandsConfiguration(config, template, project) ==
    IF ~config.supported THEN CommandsState(project.dirs, project.files, <<>>)
    ELSE LET made == CommandsState(createTargetDirectory(project.dirs, config.targetDirectory),
                                   project.files, <<>>)
         IN  IF ~template.exists
             THEN [made EXCEPT !.warnings = Append(@, CommandsWarning)]
             ELSE copyCommandsFrom(made, config, template.listing, 1)

-----------------------------------------------------------------------------
(* Specification SpecCommands: one processCommandsConfiguration call.      *)

MaxCommands == 2

PromptsDirectory == <<".","g","i","t","h","u","b","/","p","r","o","m","p","t","s">>

CommandsConfigs ==
    {NoCommandsConfig, CommandsConfig(PromptsDirectory, TRUE), CommandsConfig(PromptsDirectory, FALSE)}

CommandEntries ==
    { File(<<"f","i","x",".","c","o","m","m","a","n","d",".","m","d">>, <<"F">>),
      File(<<"r","e","v","i","e","w",".","c","o","m","m","a","n","d",".","m","d">>, <<"R">>),
      Unreadable(<<"l","o","c","k","e","d",".","c","o","m","m","a","n","d",".","m","d">>),
      Directory(<<"s","u","b",".","c","o","m","m","a","n","d",".","m","d">>),
      File(<<"R","E","A","D","M","E",".","m","d">>, <<"N">>),
      File(<<"5","0","%",".","c","o","m","m","a","n","d",".","m","d">>, <<"P">>) }

RECURSIVE CommandListings(_)
CommandListings(n) ==
    IF n = 0 THEN {<<>>}
    ELSE LET shorter == CommandListings(n - 1)
         IN  shorter \cup
             UNION {{Append(l, e) :
                       e \in {d \in CommandEntries :
                                \A i \in 1..Len(l) : l[i].name # d.name}} :
                    l \in {k \in shorter : Len(k) = n - 1}}

\* The commands template directory: absent, or a directory with a listing.
CommandsTemplates ==
    {[exists |-> FALSE, listing |-> <<>>]}
        \cup {[exists |-> TRUE, listing |-> l] : l \in CommandListings(MaxCommands)}

\* The project before the call: empty, or with a prompt written earlier.
CommandsProjects ==
    { [dirs |-> {}, files |-> <<>>],
      [dirs |-> createTargetDirectory({}, PromptsDirectory),
       files |-> WriteFile(<<>>, <<"/","p","/",".","g","i","t","h","u","b","/","p","r","o","m","p","t","s","/","f","i","x",".","p","r","o","m","p","t",".","m","d">>, <<"o","l","d">>)] }

NoCommandsRun == [dirs |-> {}, files |-> <<>>, warnings |-> <<>>, done |-> FALSE]

\* The call has returned and left o.
CommandsDone(o) == [dirs |-> o.dirs, files |-> o.files, warnings |-> o.warnings, done |-> TRUE]

CommandsInit ==
    /\ \E c \in CommandsConfigs : \E t \in CommandsTemplates : \E p \in CommandsProjects :
          cmdIn = [config |-> c, template |-> t, project |-> p]
    /\ cmdOut = NoCommandsRun

CommandsIdle ==
    /\ cmdIn = [config |-> NoCommandsConfig, template |-> [exists |-> FALSE, listing |-> <<>>],
                project |-> [dirs |-> {}, files |-> <<>>]]
    /\ cmdOut = NoCommandsRun

ProcessCommandsConfiguration ==
    /\ ~cmdOut.done
    /\ cmdOut' = CommandsDone(processCommandsConfiguration(cmdIn.config, cmdIn.template,
                                                           cmdIn.project))
    /\ UNCHANGED cmdIn

-----------------------------------------------------------------------------
(* AdapterRegistry.                                                        *)

CursorId == <<"c","u","r","s","o","r">>
ClaudeCodeId == <<"c","l","a","u","d","e","-","c","o","d","e">>

\* AdapterRegistry.adapters: the keys of the Map, in insertion order.
RegistryKeys == <<GitHubCopilotId, CursorId, ClaudeCodeId>>

\* The class each factory of the Map constructs.
AdapterClass(aiApp) ==
    CASE aiApp = GitHubCopilotId -> "GitHubCopilotAdapter"
      [] aiApp = CursorId -> "CursorAdapter"
      [] aiApp = ClaudeCodeId -> "ClaudeCodeAdapter"

\* getSupportedAiApps(): Array.from(this.adapters.keys())
getSupportedAiApps == RegistryKeys

\* this.adapters.get(aiApp) finds a factory.
HasFactory(aiApp) == \E i \in 1..Len(RegistryKeys) : RegistryKeys[i] = aiApp

\* `AI App "${aiApp}" is not supported.`
NotSupportedMessage(aiApp) ==
    <<"A","I"," ","A","p","p"," ","\"">> \o aiApp \o <<"\""," ","i","s"," ","n","o","t"," ","s","u","p","p","o","r","t","e","d",".">>

NoAdapter == "none"

Returned(class) == [thrown |-> FALSE, message |-> <<>>, adapter |-> class]
Thrown(message) == [thrown |-> TRUE, message |-> message, adapter |-> NoAdapter]

\* A registry that answers an unknown id with its first adapter.
getAdapterWithDefault(aiApp) ==
    IF ~HasFactory(aiApp) THEN Returned(AdapterClass(RegistryKeys[1]))
    ELSE Returned(AdapterClass(aiApp))

\* AdapterRegistry.getAdapter
getAdapter(aiApp) ==
    IF ~HasFactory(aiApp) THEN Thrown(NotSupportedMessage(aiApp))
    ELSE Returned(AdapterClass(aiApp))

-----------------------------------------------------------------------------
(* Specification SpecRegistry: a series of getAdapter calls.               *)

MaxLookups == 3

\* Ids asked of the registry: the registered ones, an app the registry
\* does not hold, a name every object inherits, the empty string, and a
\* registered id in another case and with a trailing space.
RequestedIds ==
    { GitHubCopilotId, CursorId, ClaudeCodeId, <<"g","e","m","i","n","i">>, <<"u","n","s","u","p","p","o","r","t","e","d","-","a","p","p">>,
      <<"t","o","S","t","r","i","n","g">>, <<>>, <<"C","u","r","s","o","r">>, <<"c","u","r","s","o","r"," ">> }

RegistryInit ==
    /\ lookups = <<>>
    /\ instances = <<>>

RegistryIdle == RegistryInit

GetAdapter(aiApp) ==
    /\ Len(lookups) < MaxLookups
    /\ LET r == getAdapter(aiApp)
       IN  /\ lookups' = Append(lookups, [aiApp |-> aiApp, thrown |-> r.thrown,
                                          message |-> r.message, adapter |-> r.adapter,
                                          before |-> instances])
           /\ instances' = IF r.thrown THEN instances ELSE Append(instances, r.adapter)

-----------------------------------------------------------------------------
(* The MCP capability of the adapters and the MCP step of the scaffold.    *)

\* getMcpConfig() returns null.
NoMcpConfig == [supported |-> FALSE, mergeKey |-> DefaultMergeKey]

\* getMcpConfig(): {filePath: '.vscode/mcp.json', mergeKey: 'servers'} for
\* GitHub Copilot, {filePath: '.gemini/settings.json', mergeKey:
\* 'mcpServers'} for Gemini, null for Cursor and Claude Code.
getMcpConfig(a) ==
    CASE a = "github-copilot" -> [supported |-> TRUE, mergeKey |-> "servers"]
      [] a = "gemini" -> [supported |-> TRUE, mergeKey |-> "mcpServers"]
      [] OTHER -> NoMcpConfig

\* What a call left of the target file, and what it did on the way.
McpOutcome(file, read, written, warned) ==
    [file |-> file, read |-> read, written |-> written, warned |-> warned]

\* processMcpConfiguration without the early return: the body runs with
\* the default merge key.
processMcpConfigurationAlways(mcpConfig, template, target) ==
    LET o == processMcp(template, target, mcpConfig.mergeKey)
    IN  McpOutcome(o.file, TRUE, o.written, o.warned)

\* processMcpConfiguration: `if (!mcpConfig) return`, then the try block,
\* which starts by reading the template.
processMcpConfiguration(mcpConfig, template, target) ==
    IF ~mcpConfig.supported THEN McpOutcome(target, FALSE, FALSE, FALSE)
    ELSE LET o == processMcp(template, target, mcpConfig.mergeKey)
         IN  McpOutcome(o.file, TRUE, o.written, o.warned)

McpNotSupported == "MCP configuration not supported for"
McpTemplateNotFound == "MCP template directory not found"
UncaughtURIError == "URI malformed"

ScaffoldOutcome(thrown, st, mcp, notices) ==
    [done |-> TRUE, thrown |-> thrown, rules |-> st.rules, warnings |-> st.warnings,
     mcp |-> mcp, notices |-> notices]

\* scaffoldAiAppInstructions with the MCP step: the instructions of the
\* adapter first (st is what the copy pass left); then, if includeMcp is
\* set, processMcpConfiguration for an adapter that has an McpConfig (after
\* resolveMcpTemplateDirectory), and a console.warn for one that has none.
mcpStep(request, st, mcpTemplate, target) ==
    LET untouched == McpOutcome(target, FALSE, FALSE, FALSE)
    IN  IF st.thrown THEN ScaffoldOutcome(UncaughtURIError, st, untouched, <<>>)
        ELSE IF request.includeMcp # "true" THEN ScaffoldOutcome(NoError, st, untouched, <<>>)
        ELSE IF ~getMcpConfig(request.aiApp).supported
        THEN ScaffoldOutcome(NoError, st, untouched, <<McpNotSupported>>)
        ELSE IF ~mcpTemplate.directory
        THEN ScaffoldOutcome(McpTemplateNotFound, st, untouched, <<>>)
        ELSE ScaffoldOutcome(NoError, st,
                 processMcpConfiguration(getMcpConfig(request.aiApp), mcpTemplate.file, target),
                 <<>>)

scaffoldWithMcp(request, mcpTemplate, target) ==
    mcpStep(request,
            copyTemplateFiles(request.aiApp, CopyState(<<>>, <<>>),
                              TemplateListing(request.codeTopic),
                              TemplateDirectory, TargetDirectory(request.aiApp)),
            mcpTemplate, target)

-----------------------------------------------------------------------------
(* Specification SpecInclude: one scaffold request with the MCP option,    *)
(* and one direct call of processMcpConfiguration on the same adapter.     *)

\* includeMcp: true, false, or not given.
IncludeFlags == {"true", "false", "undefined"}

ShippedMcpTemplate ==
    JsonText("indent2", JObject(<< <<"mcpServers", JObject(<< <<"Snyk", TemplateDefinition>> >>)>> >>))

\* The _mcp template directory: absent, or there with its mcp.json.
McpTemplates ==
    { [directory |-> FALSE, file |-> NoFile], [directory |-> TRUE, file |-> ShippedMcpTemplate] }

\* The target config before the request: absent, or with a server of the
\* user's under each merge key.
IncludeTargets ==
    { NoFile,
      JsonText("indent2", JObject(<< <<"servers", JObject(<< <<"Custom", ExistingDefinition>> >>)>>,
                                     <<"mcpServers", JObject(<< <<"Custom", ExistingDefinition>> >>)>> >>)) }

NotCalled == [done |-> FALSE, thrown |-> NoError, rules |-> <<>>, warnings |-> <<>>,
              mcp |-> McpOutcome(NoFile, FALSE, FALSE, FALSE), notices |-> <<>>]

IncludeInit ==
    /\ \E a \in Adapters : \E f \in IncludeFlags : \E topic \in Topics :
       \E t \in McpTemplates : \E g \in IncludeTargets :
          includeIn = [request |-> [aiApp |-> a, codeTopic |-> topic, includeMcp |-> f],
                       mcpTemplate |-> t, target |-> g]
    /\ includeOut = [scaffold |-> NotCalled, direct |-> NotCalled]

IncludeIdle ==
    /\ includeIn = [request |-> [aiApp |-> "claude-code", codeTopic |-> "testing",
                                 includeMcp |-> "undefined"],
                    mcpTemplate |-> [directory |-> FALSE, file |-> NoFile],
                    target |-> NoFile]
    /\ includeOut = [scaffold |-> NotCalled, direct |-> NotCalled]

\* scaffoldAiAppInstructions(request)
ScaffoldWithMcp ==
    /\ ~includeOut.scaffold.done
    /\ includeOut' = [includeOut EXCEPT !.scaffold =
                         scaffoldWithMcp(includeIn.request, includeIn.mcpTemplate,
                                         includeIn.target)]
    /\ UNCHANGED includeIn

\* adapter.processMcpConfiguration(request, mcpTemplateDirectory, targetDirectory)
CallProcessMcpConfiguration ==
    /\ ~includeOut.direct.done
    /\ includeOut' = [includeOut EXCEPT !.direct =
                         [done |-> TRUE, thrown |-> NoError, rules |-> <<>>, warnings |-> <<>>,
                          mcp |-> processMcpConfiguration(getMcpConfig(includeIn.request.aiApp),
                                                          includeIn.mcpTemplate.file,
                                                          includeIn.target),
                          notices |-> <<>>]]
    /\ UNCHANGED includeIn

-----------------------------------------------------------------------------
(* Specification SpecCli: the topic loop of initInteractive and            *)
(* initWithCliArgs, with each scaffoldAiAppInstructions call as a promise  *)
(* that proceeds step by step.                                             *)

MaxTopics == 3

AVAILABLE_TOPICS == {"secure-code", "security-vulnerabilities", "testing", "nodejs-dev"}

\* The topics of one request: multiselect with required: true, or the
\* --topics flags after validateCliArgs; at least one, none twice.
RECURSIVE TopicChoices(_)
TopicChoices(n) ==
    IF n = 0 THEN {<<>>}
    ELSE LET shorter == TopicChoices(n - 1)
         IN  shorter \cup
             UNION {{Append(c, t) : t \in {u \in AVAILABLE_TOPICS :
                                              \A i \in 1..Len(c) : c[i] # u}} :
                    c \in {k \in shorter : Len(k) = n - 1}}

\* The steps of one scaffold: the instruction files are copied; the main
\* file has been read (readFile of updateClaudeMainFile) and is not yet
\* written; it has been written; the JSON config has been read
\* (processMcpConfiguration) and is not yet written; the promise resolved.
Phases == <<"copying", "mainRead", "mainWritten", "mcpRead", "done">>

NextPhase(phase) == Phases[1 + CHOOSE i \in 1..Len(Phases) : Phases[i] = phase]

Started(topic) == [topic |-> topic, phase |-> "copying", snapshot |-> {}]

\* A loop that starts every scaffold without waiting for the one before.
StartsAll == TRUE

\* `await scaffoldAiAppInstructions(templateChoices)` in the loop body: the
\* next iteration begins when the promise of this one has resolved.
MayStartNext == \A i \in 1..Len(flights) : flights[i].phase = "done"

CliInit ==
    /\ cliTopics \in TopicChoices(MaxTopics) \ {<<>>}
    /\ cliMode \in {"interactive", "args"}
    /\ flights = <<>>
    /\ cliFile = {}
    /\ cliExit = "running"

CliIdle ==
    /\ cliTopics = <<>>
    /\ cliMode = "args"
    /\ flights = <<>>
    /\ cliFile = {}
    /\ cliExit = "running"

\* The loop body: scaffoldAiAppInstructions is called for the next topic.
StartScaffold ==
    /\ cliExit = "running"
    /\ Len(flights) < Len(cliTopics)
    /\ MayStartNext
    /\ flights' = Append(flights, Started(cliTopics[Len(flights) + 1]))
    /\ UNCHANGED <<cliTopics, cliMode, cliFile, cliExit>>

\* One step of a scaffold in progress.
ScaffoldStep(i) ==
    /\ cliExit = "running"
    /\ flights[i].phase # "done"
    /\ LET phase == NextPhase(flights[i].phase)
       IN  /\ flights' = [flights EXCEPT ![i] =
                             [@ EXCEPT !.phase = phase,
                                       !.snapshot = IF phase = "mainRead" THEN cliFile ELSE @]]
           /\ cliFile' = IF phase = "mainWritten"
                         THEN flights[i].snapshot \cup {flights[i].topic}
                         ELSE cliFile
    /\ UNCHANGED <<cliTopics, cliMode, cliExit>>

\* A scaffold in progress rejects: main() catches and calls process.exit(1).
ScaffoldRejects(i) ==
    /\ cliExit = "running"
    /\ flights[i].phase # "done"
    /\ cliExit' = "failed"
    /\ UNCHANGED <<cliTopics, cliMode, flights, cliFile>>

\* After the loop: outro(...) or the success message.
CliFinish ==
    /\ cliExit = "running"
    /\ Len(flights) = Len(cliTopics)
    /\ MayStartNext
    /\ cliExit' = "ok"
    /\ UNCHANGED <<cliTopics, cliMode, flights, cliFile>>

-----------------------------------------------------------------------------
(* Specification SpecName: one generateTargetFileName call of an adapter.  *)

MaxMarkers == 2

\* What precedes the markers and the extension of a template file name:
\* plain stems, none, a dotted one, one behind a directory, a directory
\* alone, and the parent directory.
Stems ==
    { <<"t","e","s","t">>, <<"c","u","s","t","o","m">>, <<>>, <<"a",".","b">>, <<"d","/","e">>, <<"t","/">>, DotDot }

Extensions == { <<>>, MarkdownExt, <<".","t","x","t">> }

RECURSIVE Markers(_)
Markers(k) == IF k = 0 THEN <<>> ELSE InstructionsMarker \o Markers(k - 1)

TemplateFileNames ==
    { stem \o Markers(k) \o ext : stem \in Stems, k \in 0..MaxMarkers, ext \in Extensions }

NoName == [done |-> FALSE, name |-> <<>>]

NameInit ==
    /\ \E a \in Adapters : \E n \in TemplateFileNames : nameIn = [adapter |-> a, name |-> n]
    /\ nameOut = NoName

NameIdle ==
    /\ nameIn = [adapter |-> "cursor", name |-> <<>>]
    /\ nameOut = NoName

\* generateTargetFileName(templateFileName, this.config.filesSuffix)
GenerateTargetFileName ==
    /\ ~nameOut.done
    /\ nameOut' = [done |-> TRUE,
                   name |-> generateTargetFileName(nameIn.name, filesSuffix(nameIn.adapter))]
    /\ UNCHANGED nameIn

-----------------------------------------------------------------------------
(* Specification SpecMerge: one addImportsToClaudeContent or               *)
(* addImportsToGeminiContent call. Whether fromMarkdown of the library     *)
(* mdast-util-from-markdown throws is the environment's choice.            *)

MaxImports == 2

\* The import entries of a call: of the entries the documents may hold,
\* every list of at most MaxImports.
RECURSIVE ImportLists(_, _)
ImportLists(a, n) ==
    IF n = 0 THEN {<<>>}
    ELSE LET shorter == ImportLists(a, n - 1)
         IN  shorter \cup {Append(l, e) : l \in {k \in shorter : Len(k) = n - 1},
                                          e \in {TestingImport(a), CpImport(a)}}

CategoryLabels == {TopicLabel(topic) : topic \in Topics}

NotMerged == [done |-> FALSE, text |-> <<>>]

MergeInit ==
    /\ \E a \in MainContextAdapters :
       \E d \in InitialDocuments(a) \ {Absent} :
       \E l \in CategoryLabels :
       \E i \in ImportLists(a, MaxImports) :
       \E t \in BOOLEAN :
          mergeIn = [content |-> d, categoryLabel |-> l, imports |-> i, parseThrows |-> t]
    /\ mergeOut = NotMerged

MergeIdle ==
    /\ mergeIn = [content |-> <<>>, categoryLabel |-> <<>>, imports |-> <<>>,
                  parseThrows |-> FALSE]
    /\ mergeOut = NotMerged

\* addImportsToClaudeContent(content, categoryLabel, imports)
AddImportsToContent ==
    /\ ~mergeOut.done
    /\ mergeOut' = [done |-> TRUE,
                    text |-> addImportsToContent(mergeIn.content, mergeIn.categoryLabel,
                                                 mergeIn.imports, mergeIn.parseThrows)]
    /\ UNCHANGED mergeIn

-----------------------------------------------------------------------------
(* The specifications. Each runs one component; the others stay idle.      *)

IdleMain ==
    /\ adapter = "claude-code"
    /\ mainFile = Absent
    /\ rules = <<>>
    /\ warnings = <<>>
    /\ hist = <<>>

IdleMcp ==
    /\ mergeKey = DefaultMergeKey
    /\ tplFile = NoFile
    /\ mcpFile = NoFile
    /\ mcpDirMade = FALSE
    /\ mcpWarned = 0
    /\ mcpHist = <<>>

Init == InitMain /\ IdleMcp /\ PathIdle /\ CopyIdle /\ ScaffoldIdle
    /\ DocIdle /\ CommandsIdle /\ RegistryIdle /\ IncludeIdle /\ CliIdle
    /\ NameIdle /\ MergeIdle

Next ==
    \E topic \in Topics : ProcessInstructions(topic)
        /\ UNCHANGED <<mcpVars, pathVars, copyVars, scaffoldVars, docVars,
                     cmdVars, registryVars, includeVars, cliVars, nameVars,
                     mergeVars>>

Spec == Init /\ [][Next]_vars

McpInit == IdleMain /\ InitMcp /\ PathIdle /\ CopyIdle /\ ScaffoldIdle
    /\ DocIdle /\ CommandsIdle /\ RegistryIdle /\ IncludeIdle /\ CliIdle
    /\ NameIdle /\ MergeIdle

NextMcp ==
    ProcessMcpConfiguration
        /\ UNCHANGED <<mainVars, pathVars, copyVars, scaffoldVars, docVars,
                     cmdVars, registryVars, includeVars, cliVars, nameVars,
                     mergeVars>>

SpecMcp == McpInit /\ [][NextMcp]_vars

PathSpecInit == IdleMain /\ IdleMcp /\ PathInit /\ CopyIdle /\ ScaffoldIdle
    /\ DocIdle /\ CommandsIdle /\ RegistryIdle /\ IncludeIdle /\ CliIdle
    /\ NameIdle /\ MergeIdle

NextPath ==
    ValidateTargetPath
        /\ UNCHANGED <<mainVars, mcpVars, copyVars, scaffoldVars, docVars,
                     cmdVars, registryVars, includeVars, cliVars, nameVars,
                     mergeVars>>

SpecPath == PathSpecInit /\ [][NextPath]_vars

CopySpecInit == IdleMain /\ IdleMcp /\ PathIdle /\ CopyInit /\ ScaffoldIdle
    /\ DocIdle /\ CommandsIdle /\ RegistryIdle /\ IncludeIdle /\ CliIdle
    /\ NameIdle /\ MergeIdle

NextCopy ==
    CopyTemplateFiles
        /\ UNCHANGED <<mainVars, mcpVars, pathVars, scaffoldVars, docVars,
                     cmdVars, registryVars, includeVars, cliVars, nameVars,
                     mergeVars>>

SpecCopy == CopySpecInit /\ [][NextCopy]_vars

ScaffoldSpecInit == IdleMain /\ IdleMcp /\ PathIdle /\ CopyIdle
    /\ ScaffoldInit /\ DocIdle /\ CommandsIdle /\ RegistryIdle
    /\ IncludeIdle /\ CliIdle /\ NameIdle /\ MergeIdle

NextScaffold ==
    ScaffoldAiAppInstructions
        /\ UNCHANGED <<mainVars, mcpVars, pathVars, copyVars, docVars,
                     cmdVars, registryVars, includeVars, cliVars, nameVars,
                     mergeVars>>

SpecScaffold == ScaffoldSpecInit /\ [][NextScaffold]_vars

DocSpecInit == IdleMain /\ IdleMcp /\ PathIdle /\ CopyIdle /\ ScaffoldIdle
    /\ DocInit /\ CommandsIdle /\ RegistryIdle /\ IncludeIdle /\ CliIdle
    /\ NameIdle /\ MergeIdle

NextDoc ==
    \/ ProcessFrontmatter
          /\ UNCHANGED <<mainVars, mcpVars, pathVars, copyVars,
                       scaffoldVars, cmdVars, registryVars, includeVars,
                       cliVars, nameVars, mergeVars>>
    \/ StripFrontmatter
          /\ UNCHANGED <<mainVars, mcpVars, pathVars, copyVars,
                       scaffoldVars, cmdVars, registryVars, includeVars,
                       cliVars, nameVars, mergeVars>>

SpecDoc == DocSpecInit /\ [][NextDoc]_vars

CommandsSpecInit == IdleMain /\ IdleMcp /\ PathIdle /\ CopyIdle
    /\ ScaffoldIdle /\ DocIdle /\ CommandsInit /\ RegistryIdle
    /\ IncludeIdle /\ CliIdle /\ NameIdle /\ MergeIdle

NextCommands ==
    ProcessCommandsConfiguration
        /\ UNCHANGED <<mainVars, mcpVars, pathVars, copyVars, scaffoldVars,
                     docVars, registryVars, includeVars, cliVars, nameVars,
                     mergeVars>>

SpecCommands == CommandsSpecInit /\ [][NextCommands]_vars

RegistrySpecInit == IdleMain /\ IdleMcp /\ PathIdle /\ CopyIdle
    /\ ScaffoldIdle /\ DocIdle /\ CommandsIdle /\ RegistryInit
    /\ IncludeIdle /\ CliIdle /\ NameIdle /\ MergeIdle

NextRegistry ==
    \E aiApp \in RequestedIds : GetAdapter(aiApp)
        /\ UNCHANGED <<mainVars, mcpVars, pathVars, copyVars, scaffoldVars,
                     docVars, cmdVars, includeVars, cliVars, nameVars,
                     mergeVars>>

SpecRegistry == RegistrySpecInit /\ [][NextRegistry]_vars

IncludeSpecInit == IdleMain /\ IdleMcp /\ PathIdle /\ CopyIdle
    /\ ScaffoldIdle /\ DocIdle /\ CommandsIdle /\ RegistryIdle
    /\ IncludeInit /\ CliIdle /\ NameIdle /\ MergeIdle

NextInclude ==
    \/ ScaffoldWithMcp
          /\ UNCHANGED <<mainVars, mcpVars, pathVars, copyVars,
                       scaffoldVars, docVars, cmdVars, registryVars,
                       cliVars, nameVars, mergeVars>>
    \/ CallProcessMcpConfiguration
          /\ UNCHANGED <<mainVars, mcpVars, pathVars, copyVars,
                       scaffoldVars, docVars, cmdVars, registryVars,
                       cliVars, nameVars, mergeVars>>

SpecInclude == IncludeSpecInit /\ [][NextInclude]_vars

CliSpecInit == IdleMain /\ IdleMcp /\ PathIdle /\ CopyIdle /\ ScaffoldIdle
    /\ DocIdle /\ CommandsIdle /\ RegistryIdle /\ IncludeIdle /\ CliInit
    /\ NameIdle /\ MergeIdle

NextCli ==
    \/ StartScaffold
          /\ UNCHANGED <<mainVars, mcpVars, pathVars, copyVars,
                       scaffoldVars, docVars, cmdVars, registryVars,
                       includeVars, nameVars, mergeVars>>
    \/ \E i \in 1..Len(flights) : ScaffoldStep(i)
          /\ UNCHANGED <<mainVars, mcpVars, pathVars, copyVars,
                       scaffoldVars, docVars, cmdVars, registryVars,
                       includeVars, nameVars, mergeVars>>
    \/ \E i \in 1..Len(flights) : ScaffoldRejects(i)
          /\ UNCHANGED <<mainVars, mcpVars, pathVars, copyVars,
                       scaffoldVars, docVars, cmdVars, registryVars,
                       includeVars, nameVars, mergeVars>>
    \/ CliFinish
          /\ UNCHANGED <<mainVars, mcpVars, pathVars, copyVars,
                       scaffoldVars, docVars, cmdVars, registryVars,
                       includeVars, nameVars, mergeVars>>

SpecCli == CliSpecInit /\ [][NextCli]_vars

NameSpecInit == IdleMain /\ IdleMcp /\ PathIdle /\ CopyIdle /\ ScaffoldIdle
    /\ DocIdle /\ CommandsIdle /\ RegistryIdle /\ IncludeIdle /\ CliIdle
    /\ NameInit /\ MergeIdle

NextName ==
    GenerateTargetFileName
        /\ UNCHANGED <<mainVars, mcpVars, pathVars, copyVars, scaffoldVars,
                     docVars, cmdVars, registryVars, includeVars, cliVars,
                     mergeVars>>

SpecName == NameSpecInit /\ [][NextName]_vars

MergeSpecInit == IdleMain /\ IdleMcp /\ PathIdle /\ CopyIdle /\ ScaffoldIdle
    /\ DocIdle /\ CommandsIdle /\ RegistryIdle /\ IncludeIdle /\ CliIdle
    /\ NameIdle /\ MergeInit

NextMerge ==
    AddImportsToContent
        /\ UNCHANGED <<mainVars, mcpVars, pathVars, copyVars, scaffoldVars,
                     docVars, cmdVars, registryVars, includeVars, cliVars,
                     nameVars>>

SpecMerge == MergeSpecInit /\ [][NextMerge]_vars

-----------------------------------------------------------------------------
(* Claims about the main-context merge, under Spec.                        *)

\* The calls made so far, by position in hist.
Calls == 1..Len(hist)

ImportsOfTopic(topic) == ImportsOf(adapter, TemplateListing(topic))

ImportSet(topic) == {ImportsOfTopic(topic)[i] : i \in 1..Len(ImportsOfTopic(topic))}

HeadingOf(topic) == HeadingMark \o TopicLabel(topic)

\* Call i + 1 repeats call i: same topic, hence same template directory.
Repeats(i) ==
    /\ i + 1 \in Calls
    /\ hist[i].topic = hist[i + 1].topic
    /\ Len(ImportsOfTopic(hist[i].topic)) > 0

\* Occurrences of p in doc, compared without regard to case as the merge does.
OccurrencesAnyCase(doc, p) == Occurrences(toLowerCase(doc), toLowerCase(p))

\* C1 (as claimed): for any starting document and any topic, when
\* processInstructions runs twice in a row with the same topic, the main
\* file after the second run equals the file after the first run, and in it
\* the category heading occurs once and each import line occurs once.
C1_IdempotentOnce ==
    \A i \in Calls :
        Repeats(i) =>
            /\ hist[i + 1].after = hist[i].after
            /\ OccurrencesAnyCase(hist[i + 1].after, HeadingOf(hist[i].topic)) = 1
            /\ \A e \in ImportSet(hist[i].topic) :
                   OccurrencesAnyCase(hist[i + 1].after, e) = 1

\* The part of C1 that the code keeps: the second of two equal runs leaves
\* the main file as the first run left it.
C1_SecondRunChangesNothing ==
    \A i \in Calls : Repeats(i) => hist[i + 1].after = hist[i].after

C1_Repeated == \E i \in Calls : Repeats(i) /\ hist[i].after # hist[i].before

AllImportEntries == UNION {ImportSet(topic) : topic \in Topics}

NoDuplicateEntry(doc) ==
    doc # Absent => \A e \in AllImportEntries : Occurrences(doc, e) <= 1

\* C2 (as claimed): after any sequence of processInstructions calls against
\* a project whose main-context document started without a repeated entry,
\* every import entry occurs at most once in the document.
C2_EntriesUnique ==
    (Len(hist) > 0 /\ NoDuplicateEntry(hist[1].before)) => NoDuplicateEntry(mainFile)

\* String.prototype.trimEnd: white space is removed from the end only.
trimEnd(s) ==
    LET keep == {i \in 1..Len(s) : ~IsWhiteSpace(s[i])}
    IN  IF keep = {} THEN <<>>
        ELSE SubSeq(s, 1, CHOOSE i \in keep : \A j \in keep : j <= i)

\* C3 (as claimed): after every call the text present before the call is
\* still at the start of the document, unmodified but for its trailing
\* white space.
C3_ExistingTextKept ==
    \A i \in Calls :
        hist[i].before # Absent => startsWith(hist[i].after, trimEnd(hist[i].before))

\* The part of C3 that the code keeps: the existing text is kept but for
\* the white space at its two ends.
C3_ExistingTextKeptTrimmed ==
    \A i \in Calls :
        hist[i].before # Absent =>
            \/ hist[i].after = hist[i].before
            \/ startsWith(hist[i].after, trim(hist[i].before))

-----------------------------------------------------------------------------
(* Claims about processMcpConfiguration, under SpecMcp.                    *)

McpCalls == 1..Len(mcpHist)

Parses(file) == file.layout \notin {"absent", "malformed"}

IsObjectFile(file) == Parses(file) /\ file.value.t = "object"

HasEntry(value, k) == value.t = "object" /\ k \in Keys(value.kv)

HasMap(value, k) == HasEntry(value, k) /\ Get(value.kv, k).t = "object"

\* The servers map a value holds under k; none when the entry is absent
\* or is not an object.
MapUnder(value, k) == IF HasMap(value, k) THEN Get(value.kv, k).kv ELSE <<>>

\* A template whose servers entries, where present, are servers maps.
WellFormedTemplate(file) ==
    /\ IsObjectFile(file)
    /\ \A k \in {mergeKey, DefaultMergeKey} : HasEntry(file.value, k) => HasMap(file.value, k)
    /\ \E k \in {mergeKey, DefaultMergeKey} : HasEntry(file.value, k)

\* An existing config that is an object whose mergeKey entry, if any, is a map.
WellFormedExisting(file) ==
    /\ IsObjectFile(file)
    /\ HasEntry(file.value, mergeKey) => HasMap(file.value, mergeKey)

\* The servers of a well-formed template: under mergeKey, else under 'mcpServers'.
ServersOfTemplate(value) ==
    IF HasEntry(value, mergeKey) THEN MapUnder(value, mergeKey)
    ELSE MapUnder(value, DefaultMergeKey)

\* C4: with a well-formed existing object and a well-formed template, the
\* server names written under mergeKey are exactly the existing names and
\* the template names; a name of the template has the template's definition
\* and a name only in the existing file keeps its definition.
C4_ServersMerged ==
    \A i \in McpCalls :
        (WellFormedTemplate(tplFile) /\ WellFormedExisting(mcpHist[i].before)) =>
            LET T == ServersOfTemplate(tplFile.value)
                E == MapUnder(mcpHist[i].before.value, mergeKey)
                after == mcpHist[i].after
            IN  /\ mcpHist[i].written
                /\ IsObjectFile(after) /\ HasMap(after.value, mergeKey)
                /\ LET R == MapUnder(after.value, mergeKey)
                   IN  /\ Keys(R) = Keys(E) \cup Keys(T)
                       /\ Len(R) = Cardinality(Keys(R))
                       /\ \A n \in Keys(T) : Get(R, n) = Get(T, n)
                       /\ \A n \in Keys(E) \ Keys(T) : Get(R, n) = Get(E, n)

\* A merge where one name collides with different definitions, one name is
\* only in the existing file and one only in the template.
C4_Witness ==
    \E i \in McpCalls :
        /\ WellFormedTemplate(tplFile) /\ WellFormedExisting(mcpHist[i].before)
        /\ LET T == ServersOfTemplate(tplFile.value)
               E == MapUnder(mcpHist[i].before.value, mergeKey)
           IN  /\ \E n \in Keys(T) \cap Keys(E) : Get(T, n) # Get(E, n)
               /\ Keys(T) \ Keys(E) # {}
               /\ Keys(E) \ Keys(T) # {}

\* C5: every top-level key of the existing JSON config other than mergeKey
\* is in the target file after the call, with an unchanged value, whatever
\* the template.
C5_OtherKeysKept ==
    \A i \in McpCalls :
        IsObjectFile(mcpHist[i].before) =>
            /\ IsObjectFile(mcpHist[i].after)
            /\ \A k \in Keys(mcpHist[i].before.value.kv) \ {mergeKey} :
                   /\ HasEntry(mcpHist[i].after.value, k)
                   /\ Get(mcpHist[i].after.value.kv, k) = Get(mcpHist[i].before.value.kv, k)

\* A written merge over an existing file that holds two other keys beside mergeKey.
C5_Witness ==
    \E i \in McpCalls :
        /\ mcpHist[i].written
        /\ IsObjectFile(mcpHist[i].before)
        /\ HasEntry(mcpHist[i].before.value, mergeKey)
        /\ Cardinality(Keys(mcpHist[i].before.value.kv) \ {mergeKey}) = 2
        /\ mcpHist[i].after.value # mcpHist[i].before.value

\* C6: a second run with the same template and adapter leaves the target
\* file exactly as the first run left it, from any existing target state.
C6_McpIdempotent ==
    \A i \in McpCalls : (i + 1) \in McpCalls => mcpHist[i + 1].after = mcpHist[i].after

\* Two runs, the first of which replaced a colliding definition in a file
\* that also held a server of its own.
C6_Witness ==
    /\ Len(mcpHist) >= 2
    /\ mcpHist[1].written /\ mcpHist[2].written
    /\ IsObjectFile(mcpHist[1].before)
    /\ LET T == templateServers(tplFile.value, mergeKey)
           E == MapUnder(mcpHist[1].before.value, mergeKey)
       IN  /\ \E n \in Keys(T) \cap Keys(E) : Get(T, n) # Get(E, n)
           /\ Keys(E) \ Keys(T) # {}

\* The servers map the call takes from a parsed template, as C8 is amended:
\* under mergeKey when that entry is an object, else under 'mcpServers'
\* when that entry is an object.
SelectedServers(value) ==
    IF HasMap(value, mergeKey) THEN MapUnder(value, mergeKey)
    ELSE MapUnder(value, DefaultMergeKey)

\* C7: when the target file exists but is not JSON, the call treats it as
\* an empty object: with a template that parses (to anything but null) it
\* warns about nothing and writes exactly {mergeKey: template servers}.
C7_MalformedTargetIsEmpty ==
    \A i \in McpCalls :
        (mcpHist[i].before = Garbage /\ Parses(tplFile) /\ tplFile.value.t # "null") =>
            /\ mcpHist[i].written
            /\ ~mcpHist[i].warned
            /\ mcpHist[i].after =
                   JsonText("indent2",
                            JObject(<< <<mergeKey, JObject(SelectedServers(tplFile.value))>> >>))

C7_Witness ==
    \E i \in McpCalls :
        /\ mcpHist[i].before = Garbage
        /\ IsObjectFile(tplFile)
        /\ SelectedServers(tplFile.value) # <<>>

\* The servers map C8 as claimed selects: 'mcpServers' is read only when
\* mergeKey differs from it and the template has no mergeKey entry at all.
SelectedAsClaimed(value) ==
    IF HasEntry(value, mergeKey) THEN MapUnder(value, mergeKey)
    ELSE IF mergeKey # DefaultMergeKey THEN MapUnder(value, DefaultMergeKey)
    ELSE <<>>

\* A call that merged an object template into a target it could write.
Merged(i) == IsObjectFile(tplFile) /\ mcpHist[i].written

ExistingMap(i) ==
    IF Parses(mcpHist[i].before) THEN MapUnder(mcpHist[i].before.value, mergeKey) ELSE <<>>

ExistingKeys(i) ==
    IF Parses(mcpHist[i].before) THEN Keys(OwnProperties(mcpHist[i].before.value)) ELSE {}

\* C8 (as claimed): the servers merged are those under the template's
\* mergeKey entry, and those under 'mcpServers' only when the template has
\* no mergeKey entry; they are written under mergeKey.
C8_SelectionAsClaimed ==
    \A i \in McpCalls :
        Merged(i) =>
            /\ HasMap(mcpHist[i].after.value, mergeKey)
            /\ MapUnder(mcpHist[i].after.value, mergeKey) =
                   SpreadInto(ExistingMap(i), SelectedAsClaimed(tplFile.value))

CustomOnly == JObject(<< <<"servers", JObject(<< <<"Custom", ExistingDefinition>> >>)>> >>)
SnykTemplate == JObject(<< <<"mcpServers", JObject(<< <<"Snyk", TemplateDefinition>> >>)>> >>)
CustomAndSnyk ==
    JObject(<< <<"servers", JObject(<< <<"Custom", ExistingDefinition>>,
                                       <<"Snyk", TemplateDefinition>> >>)>> >>)

\* C8 (amended): the servers merged are those under the template's mergeKey
\* entry when that entry is an object, else those under 'mcpServers' when
\* mergeKey differs from it and that entry is an object; they are written
\* under mergeKey and no other top-level key is added; so {servers:{Custom}}
\* merged with {mcpServers:{Snyk}} under 'servers' gives {servers:{Custom,Snyk}}.
C8_Selection ==
    \A i \in McpCalls :
        Merged(i) =>
            /\ HasMap(mcpHist[i].after.value, mergeKey)
            /\ MapUnder(mcpHist[i].after.value, mergeKey) =
                   SpreadInto(ExistingMap(i), SelectedServers(tplFile.value))
            /\ Keys(mcpHist[i].after.value.kv) = ExistingKeys(i) \cup {mergeKey}
            /\ (mergeKey = "servers" /\ tplFile.value = SnykTemplate
                  /\ Parses(mcpHist[i].before) /\ mcpHist[i].before.value = CustomOnly)
               => mcpHist[i].after.value = CustomAndSnyk

\* The scenario of C8 has run: {servers:{Custom}} met the template
\* {mcpServers:{Snyk}} under mergeKey 'servers' and the merge was written.
C8_Witness ==
    /\ mergeKey = "servers"
    /\ tplFile.value = SnykTemplate
    /\ Len(mcpHist) > 0
    /\ Parses(mcpHist[1].before) /\ mcpHist[1].before.value = CustomOnly
    /\ mcpHist[1].written

\* C9: when reading or parsing the template mcp.json fails, the call warns
\* and neither creates nor modifies the target file or its directory.
C9_TemplateFailureTouchesNothing ==
    \A i \in McpCalls :
        ~Parses(tplFile) =>
            /\ mcpHist[i].warned
            /\ ~mcpHist[i].written
            /\ mcpHist[i].after = mcpHist[i].before
            /\ mcpHist[i].dirAfter = mcpHist[i].dirBefore

\* A malformed template met a target that a merge would have rewritten.
C9_Witness ==
    \E i \in McpCalls :
        /\ tplFile = Garbage
        /\ IsObjectFile(mcpHist[i].before)
        /\ mcpHist[i].before.layout = "compact"

-----------------------------------------------------------------------------
(* Claims about validateTargetPath, under SpecPath.                        *)

IsPath(outcome) == outcome \notin {NotValidated, URIError, InvalidTargetPath}

\* p is the directory base or lies below it.
Inside(p, base) == p = base \/ startsWith(p, base \o Slash)

\* C10 (as claimed): for every candidate path and every base directory, the
\* validator fails or returns a path inside the base directory.
C10_Contained == IsPath(pathOut) => Inside(pathOut, pathIn[2])

\* The part of C10 that the code keeps: a returned path begins with the
\* text of the base directory.
C10_PrefixOnly == IsPath(pathOut) => startsWith(pathOut, pathIn[2])

-----------------------------------------------------------------------------
(* Claims about the copy pass, under SpecCopy.                             *)

CopyAdapter == copyIn[1]

CopyEntries == {copyIn[2][i] : i \in 1..Len(copyIn[2])}

\* The entries the adapter copies: regular files that pass its filter.
Eligible(e) ==
    /\ e.kind = "file"
    /\ MarkdownOnly(CopyAdapter) => endsWith(e.name, MarkdownExt)

\* Where the adapter writes the copy of entry e.
TargetOf(e) ==
    pathJoin(TargetDirectory(CopyAdapter),
             generateTargetFileName(e.name, filesSuffix(CopyAdapter)))

WarningsAbout(e) ==
    Cardinality({k \in 1..Len(copyOut.warnings) : copyOut.warnings[k] = e.name})

WrittenFrom(e) ==
    /\ TargetOf(e) \in DOMAIN copyOut.rules
    /\ copyOut.rules[TargetOf(e)] = TransformContent(CopyAdapter, e.content)

\* C11 (as claimed): whatever the entries of the listing, the copy pass
\* does not throw, every eligible file that can be read is written, and an
\* eligible file that cannot be read is reported by one warning.
C11_NoEntryAborts ==
    copyOut.done =>
        /\ ~copyOut.thrown
        /\ \A e \in CopyEntries :
               Eligible(e) =>
                   IF e.readable THEN TargetOf(e) \in DOMAIN copyOut.rules
                   ELSE WarningsAbout(e) = 1

\* The name of e holds no percent escape: it decodes to itself.
PlainName(e) == \A i \in 1..Len(e.name) : e.name[i] # "%"

\* The part of C11 that the code keeps: a pass that returns has written
\* every readable eligible file and warned once about every unreadable
\* one, among the files whose names hold no percent escape.
C11_IsolatedWhenReturned ==
    (copyOut.done /\ ~copyOut.thrown) =>
        \A e \in CopyEntries :
            Eligible(e) /\ PlainName(e) =>
                IF e.readable THEN TargetOf(e) \in DOMAIN copyOut.rules
                ELSE WarningsAbout(e) = 1

\* C12 (as claimed, for the passes that return): every eligible source file
\* has produced one warning, or a target file of its own that holds the
\* content derived from that source; so the eligible files without a
\* warning yield as many distinct target files.
C12_OneTargetOrOneWarning ==
    (copyOut.done /\ ~copyOut.thrown) =>
        /\ \A e \in CopyEntries :
               Eligible(e) =>
                   \/ WarningsAbout(e) = 1 /\ e.readable = FALSE
                   \/ WarningsAbout(e) = 0 /\ WrittenFrom(e)
        /\ \A e, f \in CopyEntries :
               (Eligible(e) /\ Eligible(f) /\ e # f
                  /\ WarningsAbout(e) = 0 /\ WarningsAbout(f) = 0)
               => TargetOf(e) # TargetOf(f)

-----------------------------------------------------------------------------
(* Claims about scaffoldAiAppInstructions, under SpecScaffold.             *)

\* The request names a configuration error: a field empty or missing, an
\* app id that is not supported, or a template directory that is absent.
Misconfigured(request) ==
    \/ Falsy(request.aiApp) \/ Falsy(request.codeLanguage) \/ Falsy(request.codeTopic)
    \/ ~IsSupportedApp(request.aiApp.value)
    \/ ~TemplateDirectoryFound(request)

ProjectAfter == [dirs |-> scaffoldOut.dirs, files |-> scaffoldOut.files]

\* C13: a scaffold request with an empty or missing aiApp, codeLanguage or
\* codeTopic, with an unsupported app id, or whose template directory does
\* not exist is rejected to the caller, and when it is rejected no
\* directory has been created and no file has been written or modified:
\* the project is as it was before the request. A request that is rejected
\* is never one that was well configured.
C13_ErrorsPrecedeMutation ==
    scaffoldOut.done =>
        /\ Misconfigured(scaffoldIn.request) <=> scaffoldOut.thrown # NoError
        /\ scaffoldOut.thrown # NoError =>
              /\ ProjectAfter = scaffoldIn.project
              /\ scaffoldOut.warnings = <<>>

\* The three kinds of rejection of C13 happen, the last with every field
\* given and a supported app, in a project that has files to lose.
C13_Witness ==
    /\ scaffoldOut.done
    /\ scaffoldOut.thrown = TemplateNotFound
    /\ scaffoldIn.request.aiApp = Field(GitHubCopilotId)
    /\ scaffoldIn.request.codeTopic = Field(<<"R","E","A","D","M","E",".","m","d">>)
    /\ scaffoldIn.project.files # <<>>
    /\ ProjectAfter = scaffoldIn.project

-----------------------------------------------------------------------------
(* Claims about the frontmatter transforms, under SpecDoc.                 *)

\* The document opens with a fence line.
OpensWithFence(doc) == IsFenceLine(Lines(doc)[1])

\* The document begins with a metadata block: an opening fence on line 1
\* and a closing fence line after it.
HasBlock(doc) == closingFenceLine(Lines(doc)) # 0

\* The text between the fences.
BlockValue(doc) == yamlValue(Lines(doc))

\* The text after the closing fence line.
BodyOf(doc) == join(bodyLines(Lines(doc)), NewLine)

Quote == "\""

\* A block value no YAML parser accepts: its only double quote opens a
\* scalar that is never closed.
Unparseable(value) ==
    /\ Cardinality({i \in 1..Len(value) : value[i] = Quote}) = 1
    /\ \E i \in 3..Len(value) : value[i] = Quote /\ value[i - 1] = " " /\ value[i - 2] = ":"

IsIndented(line) == Len(line) > 0 /\ line[1] = " "

ColonAt(line) ==
    LET at == {i \in 1..Len(line) : line[i] = ":"}
    IN  IF at = {} THEN 0 ELSE CHOOSE i \in at : \A j \in at : i <= j

ListItemMark == <<"-", " ">>

\* The fields a YAML reader finds in a block of "key: scalar" lines, "key:"
\* lines followed by indented "- item" lines, and indented continuation
\* lines of a plain scalar: key, scalar value, list items, in order.
RECURSIVE fieldsFrom(_, _, _)
fieldsFrom(lines, i, acc) ==
    IF i > Len(lines) THEN acc
    ELSE
    LET line == lines[i]
        n == Len(acc)
    IN  IF IsIndented(line) /\ n > 0
        THEN IF acc[n].scalar = <<>> /\ startsWith(trim(line), ListItemMark)
             THEN fieldsFrom(lines, i + 1,
                      [acc EXCEPT ![n].items = Append(@, trim(SubSeq(trim(line), 3, Len(trim(line)))))])
             ELSE fieldsFrom(lines, i + 1,
                      [acc EXCEPT ![n].scalar = IF @ = <<>> THEN trim(line)
                                                ELSE @ \o <<" ">> \o trim(line)])
        ELSE IF ColonAt(line) = 0
        THEN fieldsFrom(lines, i + 1, Append(acc, [key |-> line, scalar |-> <<>>, items |-> <<>>]))
        ELSE fieldsFrom(lines, i + 1,
                 Append(acc, [key |-> SubSeq(line, 1, ColonAt(line) - 1),
                              scalar |-> trim(SubSeq(line, ColonAt(line) + 1, Len(line))),
                              items |-> <<>>]))

FieldsOf(value) == IF value = <<>> THEN <<>> ELSE fieldsFrom(Lines(value), 1, <<>>)

ApplyToName == <<"a","p","p","l","y","T","o">>
GlobsName == <<"g","l","o","b","s">>

\* A well-formed block: fenced, parseable, a mapping with distinct keys.
WellFormedBlock(doc) ==
    /\ HasBlock(doc)
    /\ ~Unparseable(BlockValue(doc))
    /\ LET lines == Lines(BlockValue(doc))
           fields == FieldsOf(BlockValue(doc))
       IN  /\ ~IsIndented(lines[1])
           /\ \A i \in 1..Len(lines) : IsIndented(lines[i]) \/ ColonAt(lines[i]) # 0
           /\ \A i, j \in 1..Len(fields) : fields[i].key = fields[j].key => i = j

HasApplyTo(doc) ==
    \E i \in 1..Len(FieldsOf(BlockValue(doc))) : FieldsOf(BlockValue(doc))[i].key = ApplyToName

\* The block's fields with the key applyTo renamed to globs.
Renamed(fields) ==
    [i \in 1..Len(fields) |->
        IF fields[i].key = ApplyToName THEN [fields[i] EXCEPT !.key = GlobsName] ELSE fields[i]]

\* C14, as claimed: for every document with no metadata block, and for
\* every document whose metadata block is malformed (opened, never closed)
\* or unparseable (fenced, but no valid YAML), processFrontmatter returns
\* the input unchanged byte for byte.
C14_FallbackUnchanged ==
    docOut.cursor.ran =>
        ( \/ ~OpensWithFence(docIn)
          \/ (OpensWithFence(docIn) /\ ~HasBlock(docIn))
          \/ (HasBlock(docIn) /\ Unparseable(BlockValue(docIn)))
          => docOut.cursor.text = docIn )

\* What holds of C14: a document with no metadata block, or with a block
\* that is never closed, comes back unchanged.
C14_NoBlockUnchanged ==
    docOut.cursor.ran /\ ~HasBlock(docIn) => docOut.cursor.text = docIn

\* C15, as claimed: for every well-formed metadata block containing applyTo
\* (scalar, list-valued or empty, in any position among its siblings),
\* processFrontmatter renames only that key to globs, keeps its value, and
\* leaves every sibling's key and value unchanged.
C15_RenameOnly ==
    docOut.cursor.ran /\ WellFormedBlock(docIn) /\ HasApplyTo(docIn) =>
        /\ HasBlock(docOut.cursor.text)
        /\ FieldsOf(BlockValue(docOut.cursor.text)) = Renamed(FieldsOf(BlockValue(docIn)))

\* What holds of C15: applyTo with a scalar value on its own line is
\* renamed, value and siblings kept.
C15_ScalarRenamed ==
    docOut.cursor.ran /\ WellFormedBlock(docIn) /\ HasApplyTo(docIn)
      /\ (\A i \in 1..Len(FieldsOf(BlockValue(docIn))) :
             FieldsOf(BlockValue(docIn))[i].key = ApplyToName =>
                 /\ FieldsOf(BlockValue(docIn))[i].items = <<>>
                 /\ ColonAt(FieldsOf(BlockValue(docIn))[i].scalar) = 0
                 /\ \E l \in 1..Len(Lines(BlockValue(docIn))) :
                       Lines(BlockValue(docIn))[l] = <<"a","p","p","l","y","T","o",":"," ","x">>) =>
        FieldsOf(BlockValue(docOut.cursor.text)) = Renamed(FieldsOf(BlockValue(docIn)))

\* C16, as claimed: for every document that begins with a well-formed
\* metadata block, stripFrontmatter returns exactly the body content: no
\* part of the block and no delimiter line left, wherever the closing
\* delimiter sits (the end of the file included).
C16_StripExact ==
    docOut.gemini.ran /\ WellFormedBlock(docIn) => docOut.gemini.text = BodyOf(docIn)

\* What holds of C16: when the closing fence line is followed by a line
\* feed and the block has at least one line, what is returned is the body
\* less its leading blank lines.
C16_StripWhenTerminated ==
    docOut.gemini.ran /\ WellFormedBlock(docIn)
      /\ closingFenceLine(Lines(docIn)) < Len(Lines(docIn))
      /\ closingFenceLine(Lines(docIn)) > 2 =>
        \E k \in 0..Len(BodyOf(docIn)) :
            /\ docOut.gemini.text = SubSeq(BodyOf(docIn), k + 1, Len(BodyOf(docIn)))
            /\ \A j \in 1..k : IsWhiteSpace(BodyOf(docIn)[j])

-----------------------------------------------------------------------------
(* Claims about processCommandsConfiguration, under SpecCommands.          *)

\* C17, as claimed: processCommandsConfiguration called with a commands
\* template directory that does not exist is silent: it emits no warning
\* and produces no output in the project (no directory, no file).
C17_MissingDirectoryIsSilent ==
    cmdOut.done /\ ~cmdIn.template.exists =>
        /\ cmdOut.warnings = <<>>
        /\ cmdOut.dirs = cmdIn.project.dirs
        /\ cmdOut.files = cmdIn.project.files

\* C17, amended: processCommandsConfiguration called with a commands
\* template directory that does not exist does not throw and writes or
\* changes no file. For an adapter that has a CommandsConfig it has made
\* the target directory by then and it emits one warning; for an adapter
\* without one it does nothing at all.
C17_MissingDirectoryWarns ==
    cmdOut.done /\ ~cmdIn.template.exists =>
        /\ cmdOut.files = cmdIn.project.files
        /\ IF cmdIn.config.supported
           THEN /\ cmdOut.warnings = <<CommandsWarning>>
                /\ cmdOut.dirs = createTargetDirectory(cmdIn.project.dirs,
                                                       cmdIn.config.targetDirectory)
           ELSE /\ cmdOut.warnings = <<>>
                /\ cmdOut.dirs = cmdIn.project.dirs

\* The call of C17 has returned, for an adapter with a CommandsConfig in a
\* project that had no prompts directory: the directory is there now.
C17_Witness ==
    /\ cmdOut.done
    /\ ~cmdIn.template.exists
    /\ cmdIn.config.supported
    /\ cmdIn.project.dirs = {}
    /\ cmdOut.dirs # {}
    /\ cmdOut.warnings = <<CommandsWarning>>

-----------------------------------------------------------------------------
(* Claims about AdapterRegistry, under SpecRegistry.                       *)

Lookups == 1..Len(lookups)

\* The adapters constructed when lookup i returned or threw.
InstancesAfter(i) == IF i = Len(lookups) THEN instances ELSE lookups[i + 1].before

ListsValidIds(message) ==
    \A k \in 1..Len(getSupportedAiApps) : includes(message, getSupportedAiApps[k])

\* C18, as claimed: getAdapter(id) for an id that is not in the supported
\* list fails with an error whose message lists the valid ids, and creates
\* no adapter.
C18_ErrorListsValidIds ==
    \A i \in Lookups :
        ~HasFactory(lookups[i].aiApp) =>
            /\ lookups[i].thrown
            /\ ListsValidIds(lookups[i].message)
            /\ InstancesAfter(i) = lookups[i].before

\* C18, amended: getAdapter(id) for an id that is not in the supported
\* list fails with the error 'AI App "<id>" is not supported.', which
\* names the rejected id and does not list the valid ids, and creates no
\* adapter.
C18_ErrorNamesRejectedId ==
    \A i \in Lookups :
        ~HasFactory(lookups[i].aiApp) =>
            /\ lookups[i].thrown
            /\ lookups[i].message = NotSupportedMessage(lookups[i].aiApp)
            /\ includes(lookups[i].message, lookups[i].aiApp)
            /\ ~ListsValidIds(lookups[i].message)
            /\ lookups[i].adapter = NoAdapter
            /\ InstancesAfter(i) = lookups[i].before

\* An unsupported id was looked up after an adapter had been constructed,
\* and a supported one after it.
C18_Witness ==
    /\ Len(lookups) = 3
    /\ lookups[1].adapter = "CursorAdapter"
    /\ lookups[2].aiApp = <<"g","e","m","i","n","i">>
    /\ lookups[2].thrown
    /\ lookups[3].adapter = "ClaudeCodeAdapter"
    /\ instances = <<"CursorAdapter", "ClaudeCodeAdapter">>

-----------------------------------------------------------------------------
(* Claims about the MCP capability, under SpecInclude.                     *)

McpUnsupported == ~getMcpConfig(includeIn.request.aiApp).supported

McpUntouched(o) ==
    /\ o.mcp.file = includeIn.target
    /\ ~o.mcp.read
    /\ ~o.mcp.written
    /\ ~o.mcp.warned

IncludeListing == TemplateListing(includeIn.request.codeTopic)

\* The instruction files of the topic are there: every readable file the
\* adapter copies has its target file.
InstructionsProduced(o) ==
    \A i \in 1..Len(IncludeListing) :
        LET e == IncludeListing[i]
            a == includeIn.request.aiApp
            target == pathJoin(TargetDirectory(a), generateTargetFileName(e.name, filesSuffix(a)))
        IN  (/\ e.kind = "file"
             /\ e.readable
             /\ (MarkdownOnly(a) => endsWith(e.name, MarkdownExt)))
            => target \in DOMAIN o.rules

-----------------------------------------------------------------------------
(* Claims about the topic loop, under SpecCli.                             *)

Flights == 1..Len(flights)

\* A read-modify-write cycle on the main-context file or on the JSON
\* config is in progress in scaffold i.
InCycle(i) == flights[i].phase \in {"mainRead", "mcpRead"}

\* C20: when one request names several topics, the scaffold of topic k+1
\* starts only after the scaffold of topic k has completed, so at no point
\* are two read-modify-write cycles on the main-context file (or on the
\* JSON config) in progress at the same time; topics are scaffolded in the
\* order chosen, and no completed topic's entry is lost from the file.
C20_SequentialTopics ==
    /\ \A i \in Flights : flights[i].topic = cliTopics[i]
    /\ \A i, j \in Flights : i < j => flights[i].phase = "done"
    /\ \A i, j \in Flights : InCycle(i) /\ InCycle(j) => i = j
    /\ \A i \in Flights : flights[i].phase \in {"mainWritten", "mcpRead", "done"}
                             => flights[i].topic \in cliFile

\* A request of three topics has finished: the third scaffold started
\* after the second had completed, and the file imports all three.
C20_Witness ==
    /\ Len(cliTopics) = 3
    /\ cliExit = "ok"
    /\ Len(flights) = 3
    /\ \A i \in Flights : flights[i].phase = "done"
    /\ cliFile = {cliTopics[1], cliTopics[2], cliTopics[3]}

-----------------------------------------------------------------------------
(* Claims about the writes of processCommandsConfiguration, under          *)
(* SpecCommands.                                                           *)

\* The command files of the listing that are regular files.
CommandFiles ==
    {i \in 1..Len(cmdIn.template.listing) :
        /\ endsWith(cmdIn.template.listing[i].name, CommandExt)
        /\ cmdIn.template.listing[i].kind = "file"}

\* The path the command file i of the listing is copied to.
CommandTarget(i) ==
    pathJoin(resolve(cmdIn.config.targetDirectory),
             IF cmdIn.config.transforms THEN fileNameTransform(cmdIn.template.listing[i].name)
             ELSE cmdIn.template.listing[i].name)

\* The paths the call wrote that the project did not hold before.
NewCommandPaths == (DOMAIN cmdOut.files) \ (DOMAIN cmdIn.project.files)

\* C21: every file written (here: every command file written by
\* processCommandsConfiguration) is written to a path that passes the
\* decode, normalize, resolve and containment validation against its base
\* directory, i.e. validateTargetPath returns that path.
C21_WritesValidated ==
    cmdOut.done =>
        \A p \in NewCommandPaths :
            validateTargetPath(p, resolve(cmdIn.config.targetDirectory)) = p

\* C25: an I/O error on one command file is a warning for that file and
\* the loop goes on: every readable command file of the listing has been
\* copied when the call returns.
C25_CommandsIsolated ==
    cmdOut.done /\ cmdIn.config.supported /\ cmdIn.template.exists =>
        \A i \in CommandFiles :
            cmdIn.template.listing[i].readable =>
                /\ CommandTarget(i) \in DOMAIN cmdOut.files
                /\ cmdOut.files[CommandTarget(i)] = cmdIn.template.listing[i].content

-----------------------------------------------------------------------------
(* Claims about generateTargetFileName, under SpecName.                    *)

\* The base name has a final extension: a dot that is not its first
\* character, in a name that is not "..".
HasFinalExtension(b) == b # DotDot /\ \E i \in 2..Len(b) : b[i] = "."

\* The base name up to the dot that starts its final extension.
WithoutFinalExtension(b) ==
    IF HasFinalExtension(b)
    THEN SubSeq(b, 1, (CHOOSE i \in 2..Len(b) :
                          b[i] = "." /\ \A j \in (i + 1)..Len(b) : b[j] # ".") - 1)
    ELSE b

WithoutOneMarker(n) ==
    IF Len(n) >= Len(InstructionsMarker)
       /\ SubSeq(n, Len(n) - Len(InstructionsMarker) + 1, Len(n)) = InstructionsMarker
    THEN SubSeq(n, 1, Len(n) - Len(InstructionsMarker))
    ELSE n

\* C22: the target name is the source base name without its final
\* extension, with one trailing '.instructions' marker removed if present,
\* followed by the adapter's files suffix (test.instructions.md gives
\* test.mdc for Cursor, test.instructions.md for GitHub Copilot and
\* custom.instructions.md gives custom.md for Claude Code), and it holds
\* no path separator.
C22_TargetName ==
    nameOut.done =>
        /\ nameOut.name = WithoutOneMarker(WithoutFinalExtension(basename(nameIn.name)))
                              \o filesSuffix(nameIn.adapter)
        /\ \A i \in 1..Len(nameOut.name) : nameOut.name[i] # "/"
        /\ nameIn.name = <<"t","e","s","t",".","i","n","s","t","r","u","c","t","i","o","n","s",".","m","d">> /\ nameIn.adapter = "cursor"
              => nameOut.name = <<"t","e","s","t",".","m","d","c">>
        /\ nameIn.name = <<"t","e","s","t",".","i","n","s","t","r","u","c","t","i","o","n","s",".","m","d">> /\ nameIn.adapter = "github-copilot"
              => nameOut.name = <<"t","e","s","t",".","i","n","s","t","r","u","c","t","i","o","n","s",".","m","d">>
        /\ nameIn.name = <<"c","u","s","t","o","m",".","i","n","s","t","r","u","c","t","i","o","n","s",".","m","d">> /\ nameIn.adapter = "claude-code"
              => nameOut.name = <<"c","u","s","t","o","m",".","m","d">>

\* The Cursor adapter has derived test.mdc from test.instructions.md.
C22_Witness ==
    /\ nameOut.done
    /\ nameIn.adapter = "cursor"
    /\ nameIn.name = <<"t","e","s","t",".","i","n","s","t","r","u","c","t","i","o","n","s",".","m","d">>
    /\ nameOut.name = <<"t","e","s","t",".","m","d","c">>

-----------------------------------------------------------------------------
(* Claims about the main-context merge as a function, under SpecMerge.     *)

\* p occurs in doc, letters compared without regard to case.
ContainsAnyCase(doc, p) ==
    \E i \in 0..(Len(doc) - Len(p)) :
        \A j \in 1..Len(p) : LowerChar(doc[i + j]) = LowerChar(p[j])

\* The document of the call holds the category heading.
HeadingPresent == ContainsAnyCase(mergeIn.content, HeadingMark \o mergeIn.categoryLabel)

\* The document of the call holds at least one of the import entries.
SomeImportPresent ==
    \E k \in 1..Len(mergeIn.imports) : ContainsAnyCase(mergeIn.content, mergeIn.imports[k])

\* The append: the trimmed document, a blank line if it is not empty, the
\* heading line and a blank line if the heading is not present yet, and
\* the import entries, one per line.
Appended ==
    LET t == trim(mergeIn.content)
    IN  (IF t = <<>> THEN <<>> ELSE t \o NewLine \o NewLine)
        \o (IF HeadingPresent THEN <<>>
            ELSE HeadingMark \o mergeIn.categoryLabel \o NewLine \o NewLine)
        \o join(mergeIn.imports, NewLine) \o NewLine

C24_FallbackIsAppend ==
    mergeOut.done /\ mergeIn.parseThrows => mergeOut.text = Appended

\* What holds of the fallback: it is the normal append whenever the
\* heading is not in the document.
C24_FallbackWithoutHeading ==
    mergeOut.done /\ mergeIn.parseThrows /\ ~HeadingPresent => mergeOut.text = Appended

-----------------------------------------------------------------------------
(* Claim about existing configs of any shape, under SpecMcp.               *)

\* The call i wrote a file whose mergeKey object holds every server of
\* the template, with the template's definition.
WroteTemplateServers(i) ==
    LET T == ServersOfTemplate(tplFile.value)
        after == mcpHist[i].after
    IN  /\ mcpHist[i].written
        /\ ~mcpHist[i].warned
        /\ IsObjectFile(after) /\ HasMap(after.value, mergeKey)
        /\ \A n \in Keys(T) :
               /\ n \in Keys(MapUnder(after.value, mergeKey))
               /\ Get(MapUnder(after.value, mergeKey), n) = Get(T, n)

\* The existing target file is JSON null.
IsNullFile(file) == Parses(file) /\ file.value.t = "null"

\* C26: whatever the existing target file holds (nothing, text that is
\* not JSON, JSON of any shape, a mergeKey value that is no object), a
\* call with a readable well-formed template writes a file whose mergeKey
\* object holds every template server.
C26_AnyExistingIsMerged ==
    \A i \in McpCalls : WellFormedTemplate(tplFile) => WroteTemplateServers(i)

\* What holds: the same for every existing file but the JSON text null.
C26_AnyExistingButNull ==
    \A i \in McpCalls :
        WellFormedTemplate(tplFile) /\ ~IsNullFile(mcpHist[i].before) => WroteTemplateServers(i)

-----------------------------------------------------------------------------
(* Claims about successive topics and about what the imports refer to,     *)
(* under Spec.                                                             *)

\* The section a topic contributes: its heading line, a blank line and its
\* import entries, one per line.
SectionOf(topic) ==
    HeadingOf(topic) \o NewLine \o NewLine \o join(ImportsOfTopic(topic), NewLine) \o NewLine

\* Calls i and i + 1 scaffold two different topics that both have '.md'
\* entries, the first of them in a project whose main-context file is
\* absent or empty.
TwoTopics(i) ==
    /\ i + 1 \in Calls
    /\ hist[i].topic # hist[i + 1].topic
    /\ Len(ImportsOfTopic(hist[i].topic)) > 0
    /\ Len(ImportsOfTopic(hist[i + 1].topic)) > 0
    /\ hist[i].before \in {Absent, <<>>}
    /\ ~hist[i].threw /\ ~hist[i + 1].threw

\* After calls i and i + 1 the document holds both sections, the first as
\* call i left it and the second after it.
Accumulated(i) ==
    LET afterA == hist[i].after
        afterB == hist[i + 1].after
    IN  /\ \A t \in {hist[i].topic, hist[i + 1].topic} :
               /\ includes(afterB, HeadingOf(t))
               /\ \A e \in ImportSet(t) : includes(afterB, e)
        /\ afterA = SectionOf(hist[i].topic)
        /\ startsWith(afterB, trim(afterA))
        /\ endsWith(afterB, SectionOf(hist[i + 1].topic))

\* C27: after scaffolding topic A and then a different topic B, the
\* main-context document holds the heading and every import entry of A and
\* of B, A's section as A's run left it and B's section appended after it.
C27_TopicsAccumulate ==
    \A i \in Calls : TwoTopics(i) => Accumulated(i)

\* What holds: the same for a topic B whose heading text does not occur in
\* the document that A's run left.
C27_AccumulateUnlessHeadingOccurs ==
    \A i \in Calls :
        TwoTopics(i) /\ ~ContainsAnyCase(hist[i].after, HeadingOf(hist[i + 1].topic))
            => Accumulated(i)

-----------------------------------------------------------------------------
(* Claim about the files the copier reads, under SpecCopy.                 *)

\* p names a direct child of directory dir.
DirectChild(p, dir) ==
    /\ startsWith(p, dir \o Slash)
    /\ LET name == SubSeq(p, Len(dir) + 2, Len(p))
       IN  /\ name \notin {<<>>, Dot, DotDot}
           /\ \A i \in 1..Len(name) : name[i] # "/"

\* C30: for every entry name the listing returns, the file the copier
\* stats and reads is a direct child of the resolved template directory.
C30_SourceConfined ==
    copyOut.done =>
        \A k \in 1..Len(copyOut.stats) : DirectChild(copyOut.stats[k], TemplateDirectory)

\* A pass over a listing that holds the name that decodes to "../a.md" has
\* looked for a.md in the template directory.
C30_Witness ==
    /\ copyOut.done
    /\ ~copyOut.thrown
    /\ \E i \in 1..Len(copyIn[2]) : copyIn[2][i].name = <<"%","2","e","%","2","e","%","2","f","a",".","m","d">>
    /\ \E k \in 1..Len(copyOut.stats) : copyOut.stats[k] = TemplateDirectory \o <<"/","a",".","m","d">>

\* The rules file an import entry refers to.
RulesFileOf(entry) ==
    TargetDirectory(adapter) \o Slash
        \o SubSeq(entry, Len(ImportPrefix(adapter)) + 1, Len(entry))

\* C28: every import entry a call added to the main-context file refers
\* to a rules file that was written into the target directory; no entry
\* is added for a listing entry that was skipped (a directory, a file
\* whose copy failed with a warning).
C28_ImportsReferToWrittenFiles ==
    \A i \in Calls :
        hist[i].after # hist[i].before =>
            \A e \in ImportSet(hist[i].topic) : RulesFileOf(e) \in DOMAIN rules

\* What holds: every '.md' entry of the listing gets an import entry,
\* whether or not it was copied.
C28_ImportsFollowTheListing ==
    \A i \in Calls :
        hist[i].after # hist[i].before =>
            \A e \in ImportSet(hist[i].topic) : includes(hist[i].after, e)

\* The template directory of the topic holds no entry that ends in '.md'.
NoMarkdownEntry(topic) ==
    \A k \in 1..Len(TemplateListing(topic)) :
        ~endsWith(TemplateListing(topic)[k].name, MarkdownExt)

\* C29: when the template directory holds no entry ending in '.md',
\* processInstructions neither creates nor modifies the main-context file.
C29_EmptyTopicLeavesMainFile ==
    \A i \in Calls : NoMarkdownEntry(hist[i].topic) => hist[i].after = hist[i].before

\* A topic without '.md' entries was scaffolded in a project without a
\* main-context file, and again in one that has a document: neither call
\* made or changed the file.
C29_Witness ==
    /\ \E i \in Calls :
          /\ NoMarkdownEntry(hist[i].topic)
          /\ hist[i].before = Absent /\ hist[i].after = Absent
    /\ \E i \in Calls :
          /\ NoMarkdownEntry(hist[i].topic)
          /\ hist[i].before # Absent /\ Len(hist[i].before) > 0
          /\ hist[i].after = hist[i].before

====
